---- MODULE Spec2Model ----
(***************************************************************************)
(* Conversation / project consolidation of the creator dashboard:          *)
(* fetchCreatorChats (src/src/lib/chatService.ts) run against a relational *)
(* store.  The store tables are state; one call of fetchCreatorChats is a  *)
(* process whose steps are the continuations between its awaits.           *)
(* The image hook useOpportunityImages (src/benchmarks/                    *)
(* full_search_benchmark.js) is a second process over the table            *)
(* opportunity_images: its state values and its calls, which overlap.       *)
(* RatingModal (src/src/components/common/RatingModal.tsx) is a component  *)
(* driven by the events of its user and the props of its parent.           *)
(* The table project_ratings (src/migration_ratings.sql) is modelled with  *)
(* its constraints and its insert policy.                                  *)
(* The analyst-side consolidation benchmark (the script at the end of      *)
(* src/migration_time_tracking.sql) runs its old and its new logic over    *)
(* the arrays of its mock store.                                           *)
(***************************************************************************)
EXTENDS Integers, Sequences, FiniteSets, TLC

(***************************************************************************)
(* Bounds of the model                                                     *)
(***************************************************************************)
MaxConvs == 3
MaxTime == 2
MaxMsgs == 2
MaxApps == 2
MaxOpps == 2
MaxFailures == 1
MaxImages == 2
MaxCalls == 3
MaxSubmits == 2
MaxInserts == 3
MaxFiles == 2
MaxUploads == 2

\* const MAX_IMAGES = 10
MAX_IMAGES == 10

\* the counterparts of the actor: two analysts
AnalystIds == {1, 2}
NumAnalysts == Cardinality(AnalystIds)
ConvIds == 1..MaxConvs
MsgIds == 1..MaxMsgs
AppIds == 1..MaxApps
OppIds == 1..MaxOpps
Times == 1..MaxTime
ImageIds == 1..MaxImages

(***************************************************************************)
(* Values                                                                  *)
(***************************************************************************)
\* a null timestamp (last_message_at: string | null); real timestamps are >= 1
NullTime == 0
\* a nullable column is a sequence of length 0 (null) or 1 (the value)
Null == <<>>
Some(v) == <<v>>
\* the actor (userId) and another creator of the platform
userId == "creator-1"
otherCreator == "creator-2"
\* sender_id of a message written by analyst a
AnalystUser(a) == <<"analyst", a>>

\* all orders in which the rows of a finite set can be returned
Orderings(S) ==
  { f \in [1..Cardinality(S) -> S] : \A i, j \in 1..Cardinality(S) : i # j => f[i] # f[j] }

Range(s) == { s[i] : i \in 1..Len(s) }

RECURSIVE SumOver(_, _)
SumOver(f, S) ==
  IF S = {} THEN 0
  ELSE LET x == CHOOSE y \in S : TRUE IN f[x] + SumOver(f, S \ {x})

(***************************************************************************)
(* State                                                                   *)
(***************************************************************************)
VARIABLES
  conversations,            \* store table conversations
  messages,                 \* store table messages
  opportunity_applications, \* store table opportunity_applications
  opportunities,            \* store table opportunities
  analysts,                 \* store table analysts
  profiles,                 \* store table profiles
  honoursOrder,             \* whether the store client applies .order()
  unreliable,               \* whether store requests may fail (store unreachable)
  pc,                       \* position of the fetchCreatorChats call
  failures,                 \* store errors met by the call so far
  roundTrips,               \* store round-trips issued by the call, in order
  analystConversations,     \* Map analyst_id -> canonical conversation (insertion order)
  allConversationsByAnalyst,\* Map analyst_id -> conversation ids
  analystsData,             \* data of the analysts fetch
  analystsMap,              \* Map analyst_id -> identity
  applications,             \* data of the applications fetch
  opportunitiesMap,         \* Map opportunity id -> opportunity
  unreadCountsMap,          \* Map conversation_id -> unread count
  latestMessagesMap,        \* Map conversation_id -> latest message
  chats,                    \* the value the call resolves to
  opportunity_images,       \* store table opportunity_images
  images,                   \* useState: the in-memory image list
  renders,                  \* the image lists of the renders so far: each render creates
                            \* the uploadImages and deleteImage that close over its list
  loading,                  \* useState: loading
  error,                    \* useState: error message or null
  hookCalls,                \* the calls of the hook functions made so far, in order:
                            \* position and locals of each
  lastWrite,                \* the call whose request changed opportunity_images last
  storageObjects,           \* storage bucket opportunity-images: the object names
  storageFailures,          \* errors answered to the calls of the hook so far
  now,                      \* the value Date.now() returned last
  rating,                   \* RatingModal useState: rating
  hoverRating,              \* RatingModal useState: hoverRating
  feedback,                 \* RatingModal useState: feedback
  isOpen,                   \* RatingModal prop isOpen
  isSubmitting,             \* RatingModal prop isSubmitting
  handleSubmitRuns,         \* number of times handleSubmit ran
  onSubmitCalls,            \* the calls of the onSubmit prop, in order
  project_ratings,          \* store table project_ratings
  ratingRequest,            \* the row of the last insert into project_ratings
  ratingOutcome,            \* what the store answered to it
  ratingInserts,            \* number of inserts attempted
  CONVERSATIONS,            \* benchmark mock store: conversations array
  APPLICATIONS,             \* benchmark mock store: applications array
  OPPORTUNITIES,            \* benchmark mock store: opportunities array
  benchPc,                  \* position of runBenchmark
  unifiedConversationsOld,  \* result of the old logic
  unifiedConversationsNew,  \* result of the new logic
  stats,                    \* AnalystOverview useState: stats
  recentOpportunities,      \* AnalystOverview useState: recentOpportunities
  dashboardLoading,         \* AnalystOverview useState: loading
  dashboardCalls            \* the fetchDashboardData invocations: position and locals

storeVars == <<conversations, messages, opportunity_applications, opportunities,
               analysts, profiles, honoursOrder, unreliable>>
callVars == <<pc, failures, roundTrips, analystConversations, allConversationsByAnalyst,
              analystsData, analystsMap, applications, opportunitiesMap, unreadCountsMap,
              latestMessagesMap, chats>>
\* what uploadImages and deleteImage add to the hook and its store
uploadVars == <<storageObjects, storageFailures, now>>
imageVars == <<opportunity_images, images, renders, loading, error, hookCalls, lastWrite, uploadVars>>
modalVars == <<rating, hoverRating, feedback, isOpen, isSubmitting, handleSubmitRuns,
               onSubmitCalls>>
\* the state of the components other than the chat service and the image hook
ratingVars == <<project_ratings, ratingRequest, ratingOutcome, ratingInserts>>
benchVars == <<CONVERSATIONS, APPLICATIONS, OPPORTUNITIES, benchPc, unifiedConversationsOld,
               unifiedConversationsNew>>
dashboardVars == <<stats, recentOpportunities, dashboardLoading, dashboardCalls>>
componentVars == <<modalVars, ratingVars, benchVars, dashboardVars>>
\* what a step of one component leaves alone
notModalVars == <<storeVars, callVars, imageVars, ratingVars, benchVars, dashboardVars>>
notRatingVars == <<storeVars, callVars, imageVars, modalVars, benchVars, dashboardVars>>
notBenchVars == <<storeVars, callVars, imageVars, modalVars, ratingVars, dashboardVars>>
notDashboardVars == <<conversations, messages, analysts, profiles, honoursOrder, unreliable,
                      callVars, imageVars, modalVars, ratingVars, benchVars>>
vars == <<storeVars, callVars, imageVars, componentVars>>

(***************************************************************************)
(* Store rows                                                              *)
(***************************************************************************)
\* conversations.custom_title and conversations.tags of conversation i
CustomTitleOf(i) ==
  IF i % 3 = 0 THEN Null ELSE IF i % 3 = 1 THEN Some("campaign-a") ELSE Some("campaign-b")
TagsOf(i) == IF i % 2 = 0 THEN Null ELSE Some(<<"ugc", i>>)

ConversationRow(i, creator, analyst, lma) ==
  [ id |-> i, analyst_id |-> analyst, creator_id |-> creator,
    opportunity_id |-> ((i - 1) % MaxOpps) + 1, created_at |-> i,
    last_message_at |-> lma, custom_title |-> CustomTitleOf(i), tags |-> TagsOf(i) ]

MessageRow(i, conv, sender, read, at) ==
  [ id |-> i, conversation_id |-> conv, content |-> <<"text", i>>,
    sender_type |-> IF sender = userId THEN "creator" ELSE "analyst",
    sender_id |-> sender, read |-> read, created_at |-> at ]

ApplicationRow(i, opp, status) ==
  [ id |-> i, opportunity_id |-> opp, creator_id |-> userId, status |-> status,
    applied_at |-> i ]

OpportunityRow(j, analyst) ==
  [ id |-> j, title |-> <<"opportunity", j>>, company |-> <<"company", analyst>>,
    analyst_id |-> analyst, created_by |-> analyst ]

AnalystRow(a) ==
  [ id |-> a, name |-> <<"analyst-name", a>>, email |-> <<"analyst-mail", a>>,
    avatar_url |-> Null ]

ProfileRow(a) ==
  [ id |-> a, full_name |-> <<"profile-name", a>>, email |-> <<"profile-mail", a>>,
    avatar_url |-> Some(<<"avatar", a>>) ]

\* const fileName = `${opportunityId}/${Date.now()}-${index}.webp`: the name of a storage
\* object, its two path segments
FileName(opp, stamp, index) == <<opp, <<stamp, index, "webp">>>>

\* the signed URL the storage service gives for an object name: the path of the signing
\* endpoint, the bucket, the segments of the name, and a token in the query
SignedUrl(fileName) ==
  [ pathname |-> <<"storage", "v1", "object", "sign", "opportunity-images">> \o fileName,
    search |-> <<"token", fileName>> ]

\* image i of an opportunity, as uploaded before the hook was mounted
ImageRow(i, opp, ord) ==
  [ id |-> i, opportunity_id |-> opp, image_url |-> Some(SignedUrl(FileName(opp, 0, i))),
    display_order |-> ord, created_at |-> i ]

\* url.pathname.split('/').slice(-2).join('/'): the object name in a stored image_url
FileNameOfUrl(url) == SubSeq(url.pathname, Len(url.pathname) - 1, Len(url.pathname))

\* setImages(list): the next render holds the list, and the uploadImages and deleteImage
\* it creates close over it
SetImages(list) ==
  /\ images' = list
  /\ renders' = renders \cup {list}

\* no request has changed opportunity_images yet
NoWrite == [ call |-> 0, op |-> "none", rows |-> <<>> ]

\* the request of call k that changed opportunity_images, and the rows it sent
Write(k, op, rows) == [ call |-> k, op |-> op, rows |-> rows ]

\* the storage objects behind the rows of a table
ObjectsOf(table) == { FileNameOfUrl(r.image_url[1]) : r \in { t \in table : t.image_url # Null } }

\* a conversation of another creator with the first analyst: never the actor's
ForeignConversation == ConversationRow(MaxConvs + 1, otherCreator, 1, MaxTime)

(***************************************************************************)
(* Store contents the call is run against                                  *)
(***************************************************************************)
\* conversations 1..n of the actor, any analyst and any last_message_at each
AnyConversations ==
  UNION { { { ConversationRow(i, userId, an[i], lma[i]) : i \in 1..n }
            : an \in [1..n -> AnalystIds], lma \in [1..n -> {NullTime} \cup Times] }
          : n \in 0..MaxConvs }

\* the fixed layout: conversation i is with analyst ((i-1) mod NumAnalysts)+1, the
\* conversations with greater ids have the older last_message_at, down to none
FixtureConversations ==
  { ConversationRow(i, userId, ((i - 1) % NumAnalysts) + 1,
                    IF i <= MaxTime THEN MaxTime - (i - 1) ELSE NullTime)
    : i \in ConvIds }

\* messages 1..n of analysts, each in any conversation, read or unread or written by
\* the actor, message i created at time ((i-1) mod MaxTime)+1
AnyReadStates ==
  UNION { { { MessageRow(i, cv[i], IF k[i] = "own" THEN userId ELSE AnalystUser(1),
                         k[i] = "read", ((i - 1) % MaxTime) + 1) : i \in 1..n }
            : cv \in [1..n -> ConvIds], k \in [1..n -> {"unread", "read", "own"}] }
          : n \in 0..MaxMsgs }

\* unread messages 1..n of analysts, each in any conversation at any time
AnyMessageTimes ==
  UNION { { { MessageRow(i, cv[i], AnalystUser(1), FALSE, at[i]) : i \in 1..n }
            : cv \in [1..n -> ConvIds], at \in [1..n -> Times] }
          : n \in 0..MaxMsgs }

FixtureMessages ==
  { MessageRow(i, ((i - 1) % MaxConvs) + 1, AnalystUser(1), FALSE, ((i - 1) % MaxTime) + 1)
    : i \in MsgIds }

\* applications 1..n of the actor, each for any opportunity, approved or pending
AnyApplications ==
  UNION { { { ApplicationRow(i, op[i], st[i]) : i \in 1..n }
            : op \in [1..n -> OppIds], st \in [1..n -> {"approved", "pending"}] }
          : n \in 0..MaxApps }

\* each opportunity is missing (NumAnalysts + 1 stands for no row) or owned by an analyst
AnyOpportunities ==
  { { OpportunityRow(j, ow[j]) : j \in { k \in OppIds : ow[k] \in AnalystIds } }
    : ow \in [OppIds -> 1..(NumAnalysts + 1)] }

\* every application approved; opportunity j owned by analyst ((j-1) mod NumAnalysts)+1
FixtureApplications == { ApplicationRow(i, ((i - 1) % MaxOpps) + 1, "approved") : i \in AppIds }
SpreadOpportunities == { OpportunityRow(j, ((j - 1) % NumAnalysts) + 1) : j \in OppIds }
\* every opportunity owned by the first analyst
FirstOpportunities == { OpportunityRow(j, 1) : j \in OppIds }

AllAnalysts == { AnalystRow(a) : a \in AnalystIds }

\* conversations vary; one engagement per analyst
InitGrouping ==
  /\ conversations \in { c \cup {ForeignConversation} : c \in AnyConversations }
  /\ messages = FixtureMessages
  /\ opportunity_applications = FixtureApplications
  /\ opportunities = SpreadOpportunities
  /\ analysts = AllAnalysts
  /\ profiles = {}
  /\ unreliable = FALSE

\* messages vary
InitMessaging ==
  /\ conversations = FixtureConversations
  /\ messages \in AnyReadStates \cup AnyMessageTimes
  /\ opportunity_applications = FixtureApplications
  /\ opportunities \in {SpreadOpportunities, FirstOpportunities}
  /\ analysts = AllAnalysts
  /\ profiles = {}
  /\ unreliable = FALSE

\* applications and opportunities vary
InitProjects ==
  /\ conversations = FixtureConversations
  /\ messages = FixtureMessages
  /\ opportunity_applications \in AnyApplications
  /\ opportunities \in AnyOpportunities
  /\ analysts = AllAnalysts
  /\ profiles = {}
  /\ unreliable = FALSE

\* identities vary
InitIdentities ==
  /\ conversations = FixtureConversations
  /\ messages = FixtureMessages
  /\ opportunity_applications = FixtureApplications
  /\ opportunities = SpreadOpportunities
  /\ analysts \in { { AnalystRow(a) : a \in S } : S \in SUBSET AnalystIds }
  /\ profiles \in { { ProfileRow(a) : a \in S } : S \in SUBSET AnalystIds }
  /\ unreliable = FALSE

\* the fixed store, unreachable at times
InitUnreliable ==
  /\ conversations = FixtureConversations
  /\ messages = FixtureMessages
  /\ opportunity_applications = FixtureApplications
  /\ opportunities = SpreadOpportunities
  /\ analysts = AllAnalysts
  /\ profiles = {}
  /\ unreliable = TRUE

(***************************************************************************)
(* The store's side of the queries of fetchCreatorChats                    *)
(***************************************************************************)
\* ORDER BY last_message_at DESC as the database applies it: nulls first
OrderedDesc(rows) ==
  \A i, j \in 1..Len(rows) :
    i < j => \/ rows[i].last_message_at = NullTime
             \/ /\ rows[j].last_message_at # NullTime
                /\ rows[i].last_message_at >= rows[j].last_message_at

\* .from('conversations').eq('creator_id', userId).order('last_message_at', desc):
\* the responses the store may give
ConversationsQuery(creator) ==
  { rows \in Orderings({ c \in conversations : c.creator_id = creator }) :
      honoursOrder => OrderedDesc(rows) }

\* .from('analysts').in('id', ids) and .from('profiles').in('id', ids)
AnalystsQuery(ids) == { a \in analysts : a.id \in Range(ids) }
ProfilesQuery(ids) == { p \in profiles : p.id \in Range(ids) }

\* .from('opportunity_applications').eq('creator_id', userId).eq('status', 'approved'):
\* no order is asked for, the rows come in any order
ApplicationsQuery(creator) ==
  Orderings({ a \in opportunity_applications :
                a.creator_id = creator /\ a.status = "approved" })

\* .from('opportunities').in('id', opportunityIds)
OpportunitiesQuery(ids) == { o \in opportunities : o.id \in Range(ids) }

\* .from('messages').in('conversation_id', ids).eq('read', false).neq('sender_id', userId)
UnreadMessagesQuery(ids, creator) ==
  { m \in messages : m.conversation_id \in Range(ids) /\ m.read = FALSE /\ m.sender_id # creator }

\* rpc('get_latest_messages', { conversation_ids }): one row per conversation that has
\* messages, a message of that conversation with the greatest created_at
LatestMessagesRpc(ids) ==
  LET with == { c \in Range(ids) : \E m \in messages : m.conversation_id = c }
      newest(c) == { m \in messages :
                       /\ m.conversation_id = c
                       /\ \A o \in messages : o.conversation_id = c => o.created_at <= m.created_at }
  IN  { { pick[c] : c \in with } : pick \in { f \in [with -> messages] : \A c \in with : f[c] \in newest(c) } }

(***************************************************************************)
(* fetchCreatorChats, Step 2: grouping                                     *)
(***************************************************************************)
EmptyMap == <<>>

\* index of analyst a in the insertion-ordered Map, 0 if it has no entry
IndexOfAnalyst(groups, a) ==
  IF \E i \in 1..Len(groups) : groups[i].analyst_id = a
  THEN CHOOSE i \in 1..Len(groups) : groups[i].analyst_id = a
  ELSE 0

\* the seed of a group: the first conversation seen for the analyst
SeedGroup(conv) ==
  [ id |-> conv.id, analyst_id |-> conv.analyst_id, creator_id |-> conv.creator_id,
    created_at |-> conv.created_at, last_message_at |-> conv.last_message_at,
    custom_title |-> conv.custom_title, tags |-> conv.tags ]

\* the comparison without its !existingDate case: a null seed is never replaced
IsMoreRecentThanDated(existing, conv) ==
  /\ conv.last_message_at # NullTime
  /\ existing.last_message_at # NullTime
  /\ conv.last_message_at > existing.last_message_at

\* currentDate && (!existingDate || currentDate > existingDate); timestamps are instants
IsMoreRecent(existing, conv) ==
  /\ conv.last_message_at # NullTime
  /\ \/ existing.last_message_at = NullTime
     \/ conv.last_message_at > existing.last_message_at

\* the canonical metadata taken over from a more recent conversation
ReplaceCanonical(existing, conv) ==
  [ existing EXCEPT !.id = conv.id, !.last_message_at = conv.last_message_at,
                    !.custom_title = conv.custom_title, !.tags = conv.tags ]

\* the loop turn with the push moved into the branches: ids kept only on change
GroupOnePushOnChange(g, conv) ==
  LET k == IndexOfAnalyst(g.canon, conv.analyst_id)
      replace == k # 0 /\ IsMoreRecent(g.canon[k], conv)
      canon == IF k = 0 THEN Append(g.canon, SeedGroup(conv))
               ELSE IF replace
                    THEN [ g.canon EXCEPT ![k] = ReplaceCanonical(g.canon[k], conv) ]
                    ELSE g.canon
      before == IF k = 0 THEN <<>> ELSE g.ids[conv.analyst_id]
  IN  [ canon |-> canon,
        ids |-> [ a \in DOMAIN g.ids \cup {conv.analyst_id} |->
                    IF a = conv.analyst_id /\ (k = 0 \/ replace)
                    THEN Append(before, conv.id)
                    ELSE g.ids[a] ] ]

\* one turn of the loop over conversationData
GroupOne(g, conv) ==
  LET k == IndexOfAnalyst(g.canon, conv.analyst_id)
      canon == IF k = 0 THEN Append(g.canon, SeedGroup(conv))
               ELSE IF IsMoreRecent(g.canon[k], conv)
                    THEN [ g.canon EXCEPT ![k] = ReplaceCanonical(g.canon[k], conv) ]
                    ELSE g.canon
      before == IF k = 0 THEN <<>> ELSE g.ids[conv.analyst_id]
  IN  [ canon |-> canon,
        ids |-> [ a \in DOMAIN g.ids \cup {conv.analyst_id} |->
                    IF a = conv.analyst_id THEN Append(before, conv.id) ELSE g.ids[a] ] ]

\* the loop: analystConversations (canon) and allConversationsByAnalyst (ids)
RECURSIVE GroupConversations(_)
GroupConversations(rows) ==
  IF rows = <<>> THEN [ canon |-> <<>>, ids |-> EmptyMap ]
  ELSE GroupOne(GroupConversations(SubSeq(rows, 1, Len(rows) - 1)), rows[Len(rows)])

\* Array.from(allAnalystIds): the analysts in the order they were first seen
AnalystIdsArray == [ i \in 1..Len(analystConversations) |-> analystConversations[i].analyst_id ]

\* allConversationsByAnalyst.forEach(ids => all.push(...ids))
RECURSIVE FlattenIds(_, _)
FlattenIds(groups, ids) ==
  IF groups = <<>> THEN <<>>
  ELSE FlattenIds(SubSeq(groups, 1, Len(groups) - 1), ids) \o ids[groups[Len(groups)].analyst_id]

AllConvIds == FlattenIds(analystConversations, allConversationsByAnalyst)

(***************************************************************************)
(* fetchCreatorChats, Step 3: what is made of each response                *)
(***************************************************************************)
\* the identity used for an id found in neither analysts nor profiles
SentinelIdentity == [ name |-> <<"Analista">>, email |-> <<>>, avatar_url |-> Null ]

\* the resolution with the sentinel named "Unknown"
ResolveIdentityOrUnknown(id, analystRows, profileRows) ==
  IF \E a \in analystRows : a.id = id
  THEN LET a == CHOOSE a \in analystRows : a.id = id
       IN  [ name |-> a.name, email |-> a.email, avatar_url |-> a.avatar_url ]
  ELSE IF \E p \in profileRows : p.id = id
  THEN LET p == CHOOSE p \in profileRows : p.id = id
       IN  [ name |-> p.full_name, email |-> p.email, avatar_url |-> p.avatar_url ]
  ELSE [ name |-> <<"Unknown">>, email |-> <<>>, avatar_url |-> Null ]

\* the resolution that looks in profiles before analysts
ResolveIdentityProfileFirst(id, analystRows, profileRows) ==
  IF \E p \in profileRows : p.id = id
  THEN LET p == CHOOSE p \in profileRows : p.id = id
       IN  [ name |-> p.full_name, email |-> p.email, avatar_url |-> p.avatar_url ]
  ELSE IF \E a \in analystRows : a.id = id
  THEN LET a == CHOOSE a \in analystRows : a.id = id
       IN  [ name |-> a.name, email |-> a.email, avatar_url |-> a.avatar_url ]
  ELSE SentinelIdentity

\* analystIdsArray.forEach(...): analysts first, then profiles, then the sentinel;
\* a failed fetch leaves its data null (no row is found in it)
ResolveIdentity(id, analystRows, profileRows) ==
  IF \E a \in analystRows : a.id = id
  THEN LET a == CHOOSE a \in analystRows : a.id = id
       IN  [ name |-> a.name, email |-> a.email, avatar_url |-> a.avatar_url ]
  ELSE IF \E p \in profileRows : p.id = id
  THEN LET p == CHOOSE p \in profileRows : p.id = id
       IN  [ name |-> p.full_name, email |-> p.email, avatar_url |-> p.avatar_url ]
  ELSE SentinelIdentity

\* (applications || []).map(app => app.opportunity_id)
OpportunityIds(apps) == [ i \in 1..Len(apps) |-> apps[i].opportunity_id ]

\* opportunities.forEach(op => opportunitiesMap.set(op.id, op))
KeyById(rows) == [ k \in { r.id : r \in rows } |-> CHOOSE r \in rows : r.id = k ]

\* unreadMessages.forEach(msg => unreadCountsMap.set(msg.conversation_id, count + 1))
TallyUnread(rows) ==
  [ c \in { r.conversation_id : r \in rows } |->
      Cardinality({ r \in rows : r.conversation_id = c }) ]

\* latestMessages.forEach(msg => latestMessagesMap.set(msg.conversation_id, msg))
KeyByConversation(rows) ==
  [ c \in { r.conversation_id : r \in rows } |-> CHOOSE r \in rows : r.conversation_id = c ]

\* the round-trips each fetch issues
ConversationsRoundTrips == <<"conversations">>
AnalystsRoundTrips(ids) == <<"analysts">>
ProfilesRoundTrips(ids) == <<"profiles">>
ApplicationsRoundTrips == <<"opportunity_applications">>
OpportunitiesRoundTrips(ids) == <<"opportunities">>
UnreadRoundTrips(ids) == <<"messages">>
\* the defect the batch exists to prevent: one RPC per conversation
LatestRoundTripsPerConversation(ids) == [ i \in 1..Len(ids) |-> "rpc:get_latest_messages" ]
LatestRoundTrips(ids) == <<"rpc:get_latest_messages">>

\* the fill of analystsMap from the two responses (null data when the fetch failed)
FillAnalystsMap(ids, analystsResp, profilesResp) ==
  [ id \in Range(ids) |->
      ResolveIdentity(id, IF analystsResp = Null THEN {} ELSE analystsResp[1],
                      IF profilesResp = Null THEN {} ELSE profilesResp[1]) ]

(***************************************************************************)
(* fetchCreatorChats, Step 4: projection                                   *)
(***************************************************************************)
\* the filter without the analyst match: every resolved application under every group
RECURSIVE FormattedProjectsOfAnyAnalyst(_, _, _)
FormattedProjectsOfAnyAnalyst(conv, apps, oppMap) ==
  IF apps = <<>> THEN <<>>
  ELSE LET app == apps[Len(apps)]
           rest == FormattedProjectsOfAnyAnalyst(conv, SubSeq(apps, 1, Len(apps) - 1), oppMap)
       IN  IF app.opportunity_id \in DOMAIN oppMap
           THEN Append(rest, [ id |-> app.id, opportunity_id |-> app.opportunity_id,
                               title |-> oppMap[app.opportunity_id].title,
                               company |-> oppMap[app.opportunity_id].company,
                               status |-> "active",
                               analyst_id |-> oppMap[app.opportunity_id].analyst_id,
                               created_by |-> oppMap[app.opportunity_id].analyst_id ])
           ELSE rest

\* the filter that gives up on an unresolved opportunity: the projects collected before
\* it are discarded
RECURSIVE FormattedProjectsUntilOrphan(_, _, _)
FormattedProjectsUntilOrphan(conv, apps, oppMap) ==
  IF apps = <<>> THEN <<>>
  ELSE LET app == apps[Len(apps)]
           rest == FormattedProjectsUntilOrphan(conv, SubSeq(apps, 1, Len(apps) - 1), oppMap)
       IN  IF app.opportunity_id \notin DOMAIN oppMap THEN <<>>
           ELSE IF oppMap[app.opportunity_id].analyst_id = conv.analyst_id
           THEN Append(rest, [ id |-> app.id, opportunity_id |-> app.opportunity_id,
                               title |-> oppMap[app.opportunity_id].title,
                               company |-> oppMap[app.opportunity_id].company,
                               status |-> "active",
                               analyst_id |-> oppMap[app.opportunity_id].analyst_id,
                               created_by |-> oppMap[app.opportunity_id].analyst_id ])
           ELSE rest

\* the applications whose opportunity is resolved and owned by the group's analyst
RECURSIVE FormattedProjects(_, _, _)
FormattedProjects(conv, apps, oppMap) ==
  IF apps = <<>> THEN <<>>
  ELSE LET app == apps[Len(apps)]
           rest == FormattedProjects(conv, SubSeq(apps, 1, Len(apps) - 1), oppMap)
       IN  IF /\ app.opportunity_id \in DOMAIN oppMap
              /\ oppMap[app.opportunity_id].analyst_id = conv.analyst_id
           THEN Append(rest, [ id |-> app.id, opportunity_id |-> app.opportunity_id,
                               title |-> oppMap[app.opportunity_id].title,
                               company |-> oppMap[app.opportunity_id].company,
                               status |-> "active",
                               analyst_id |-> oppMap[app.opportunity_id].analyst_id,
                               created_by |-> oppMap[app.opportunity_id].analyst_id ])
           ELSE rest

\* the most recent of the latest messages of the conversations, the first one on a tie
RECURSIVE GroupLastMessage(_, _)
GroupLastMessage(conversationIds, latestMap) ==
  IF conversationIds = <<>> THEN Null
  ELSE LET before == GroupLastMessage(SubSeq(conversationIds, 1, Len(conversationIds) - 1), latestMap)
           convId == conversationIds[Len(conversationIds)]
       IN  IF convId \in DOMAIN latestMap
              /\ (before = Null \/ latestMap[convId].created_at > before[1].created_at)
           THEN Some([ content |-> latestMap[convId].content,
                       sender_type |-> latestMap[convId].sender_type,
                       created_at |-> latestMap[convId].created_at ])
           ELSE before

\* unreadCount += (unreadCountsMap.get(id) || 0) over the conversations
RECURSIVE GroupUnreadCount(_, _)
GroupUnreadCount(conversationIds, unreadMap) ==
  IF conversationIds = <<>> THEN 0
  ELSE GroupUnreadCount(SubSeq(conversationIds, 1, Len(conversationIds) - 1), unreadMap)
       + (IF conversationIds[Len(conversationIds)] \in DOMAIN unreadMap
          THEN unreadMap[conversationIds[Len(conversationIds)]] ELSE 0)

\* conv.custom_title || null: an empty title counts as none
TitleOrNull(t) == IF t = Null \/ t = Some("") THEN Null ELSE t
\* conv.tags || []: no tags become the empty list
TagsOrEmpty(t) == IF t = Null THEN Some(<<>>) ELSE t

ProjectChat(conv, project, analystInfo, lastMessage, unreadCount) ==
  [ project_id |-> project.id,
    opportunity_id |-> project.opportunity_id,
    opportunity |-> [ id |-> project.opportunity_id, title |-> project.title,
                      company |-> project.company, status |-> "active",
                      analyst_id |-> project.analyst_id, created_by |-> project.created_by ],
    analyst |-> [ name |-> analystInfo.name, company |-> project.company,
                  avatar_url |-> analystInfo.avatar_url ],
    conversation_id |-> conv.id,
    last_message_at |-> conv.last_message_at,
    lastMessage |-> lastMessage,
    unread_count |-> unreadCount,
    custom_title |-> TitleOrNull(conv.custom_title),
    tags |-> TagsOrEmpty(conv.tags) ]

\* the projection with the messaging metadata of each entry taken from the
\* conversations opened for the entry's opportunity only
GroupChatsPerOpportunity(conv, apps, allIds, idMap, oppMap, unreadMap, latestMap) ==
  LET analystInfo == IF conv.analyst_id \in DOMAIN idMap THEN idMap[conv.analyst_id]
                     ELSE SentinelIdentity
      formattedProjects == FormattedProjects(conv, apps, oppMap)
      conversationIds == IF conv.analyst_id \in DOMAIN allIds THEN allIds[conv.analyst_id]
                         ELSE <<>>
      idsOf(project) ==
        SelectSeq(conversationIds,
                  LAMBDA c : \E r \in conversations :
                               r.id = c /\ r.opportunity_id = project.opportunity_id)
  IN  [ i \in 1..Len(formattedProjects) |->
          ProjectChat(conv, formattedProjects[i], analystInfo,
                      GroupLastMessage(idsOf(formattedProjects[i]), latestMap),
                      GroupUnreadCount(idsOf(formattedProjects[i]), unreadMap)) ]

\* the projection that keeps a group without project as an entry with no project
GroupChatsKeepingEmptyGroups(conv, apps, allIds, idMap, oppMap, unreadMap, latestMap) ==
  LET analystInfo == IF conv.analyst_id \in DOMAIN idMap THEN idMap[conv.analyst_id]
                     ELSE SentinelIdentity
      formattedProjects == FormattedProjects(conv, apps, oppMap)
      conversationIds == IF conv.analyst_id \in DOMAIN allIds THEN allIds[conv.analyst_id]
                         ELSE <<>>
      lastMessage == GroupLastMessage(conversationIds, latestMap)
      unreadCount == GroupUnreadCount(conversationIds, unreadMap)
      noProject == [ id |-> 0, opportunity_id |-> 0, title |-> <<>>, company |-> <<>>,
                     status |-> "active", analyst_id |-> conv.analyst_id,
                     created_by |-> conv.analyst_id ]
  IN  IF formattedProjects = <<>>
      THEN << ProjectChat(conv, noProject, analystInfo, lastMessage, unreadCount) >>
      ELSE [ i \in 1..Len(formattedProjects) |->
               ProjectChat(conv, formattedProjects[i], analystInfo, lastMessage, unreadCount) ]

\* the ProjectChats of one group
GroupChats(conv, apps, allIds, idMap, oppMap, unreadMap, latestMap) ==
  LET analystInfo == IF conv.analyst_id \in DOMAIN idMap THEN idMap[conv.analyst_id]
                     ELSE SentinelIdentity
      formattedProjects == FormattedProjects(conv, apps, oppMap)
      conversationIds == IF conv.analyst_id \in DOMAIN allIds THEN allIds[conv.analyst_id]
                         ELSE <<>>
      lastMessage == GroupLastMessage(conversationIds, latestMap)
      unreadCount == GroupUnreadCount(conversationIds, unreadMap)
  IN  [ i \in 1..Len(formattedProjects) |->
          ProjectChat(conv, formattedProjects[i], analystInfo, lastMessage, unreadCount) ]

\* unifiedConversations.flat()
RECURSIVE UnifiedConversations(_, _, _, _, _, _, _)
UnifiedConversations(groups, apps, allIds, idMap, oppMap, unreadMap, latestMap) ==
  IF groups = <<>> THEN <<>>
  ELSE UnifiedConversations(SubSeq(groups, 1, Len(groups) - 1), apps, allIds, idMap,
                            oppMap, unreadMap, latestMap)
       \o GroupChats(groups[Len(groups)], apps, allIds, idMap, oppMap, unreadMap, latestMap)

\* applications || []
ApplicationsOrEmpty == IF applications = Null THEN <<>> ELSE applications[1]

(***************************************************************************)
(* Initial state: a store, and the call about to issue its first query     *)
(***************************************************************************)
InitCall ==
  /\ pc = "conversations"
  /\ failures = 0
  /\ roundTrips = <<>>
  /\ analystConversations = <<>>
  /\ allConversationsByAnalyst = EmptyMap
  /\ analystsData = Null
  /\ analystsMap = EmptyMap
  /\ applications = Null
  /\ opportunitiesMap = EmptyMap
  /\ unreadCountsMap = EmptyMap
  /\ latestMessagesMap = EmptyMap
  /\ chats = <<>>

InitStore ==
  InitGrouping \/ InitMessaging \/ InitProjects \/ InitIdentities \/ InitUnreliable

\* the hook as constructed: useState([]), useState(false), useState(null), no call made
InitHook ==
  /\ images = <<>>
  /\ renders = { <<>> }
  /\ loading = FALSE
  /\ error = Null
  /\ hookCalls = <<>>
  /\ lastWrite = NoWrite
  /\ storageFailures = 0
  /\ now = 1

\* RatingModal as mounted: useState(0), useState(0), useState(''), closed, nothing
\* submitted
InitModal ==
  /\ rating = 0
  /\ hoverRating = 0
  /\ feedback = ""
  /\ isOpen = FALSE
  /\ isSubmitting = FALSE
  /\ handleSubmitRuns = 0
  /\ onSubmitCalls = <<>>

\* project_ratings as created by the migration, no insert attempted
InitRatingsTable ==
  /\ project_ratings = {}
  /\ ratingRequest = Null
  /\ ratingOutcome = "none"
  /\ ratingInserts = 0

\* the fetchDashboardData invocations: the one of the mount effect and the one of the
\* tab-visibility callback
DashboardCalls == {1, 2}

\* an invocation that was not made
IdleFetch == [ pc |-> "idle", counts |-> <<>>, recentOpp |-> <<>>, recentWithCounts |-> <<>> ]

\* useState({ activeOpportunities: 0, ... })
StatsOf(activeCount, totalCount, completedCount, appsCount) ==
  [ activeOpportunities |-> activeCount, totalOpportunities |-> totalCount,
    completedOpportunities |-> completedCount, totalApplications |-> appsCount ]

\* AnalystOverview as mounted, before its effects run
InitDashboardIdle ==
  /\ stats = StatsOf(0, 0, 0, 0)
  /\ recentOpportunities = <<>>
  /\ dashboardLoading = TRUE
  /\ dashboardCalls = [ i \in DashboardCalls |-> IdleFetch ]

\* the benchmark not run, its mock store empty
InitBenchIdle ==
  /\ CONVERSATIONS = <<>>
  /\ APPLICATIONS = <<>>
  /\ OPPORTUNITIES = <<>>
  /\ benchPc = "start"
  /\ unifiedConversationsOld = <<>>
  /\ unifiedConversationsNew = <<>>

\* the other components as constructed
InitComponents == InitModal /\ InitRatingsTable /\ InitBenchIdle /\ InitDashboardIdle

\* the database behind the store client applies ORDER BY
Init ==
  /\ InitStore
  /\ honoursOrder = TRUE
  /\ InitCall
  /\ opportunity_images = {}
  /\ storageObjects = {}
  /\ InitHook
  /\ InitComponents

\* a store client that returns the rows in any order (order: () => builder)
InitAnyOrder ==
  /\ (InitGrouping \/ InitUnreliable)
  /\ honoursOrder = FALSE
  /\ InitCall
  /\ opportunity_images = {}
  /\ storageObjects = {}
  /\ InitHook
  /\ InitComponents

(***************************************************************************)
(* The call, one action per await                                          *)
(***************************************************************************)
\* the continuation that leaves 3d and 3e out: straight on to the projection
AfterOpportunitiesWithoutMessages == "projection"

\* where the call goes on after 3c: 3d and 3e run only for a non-empty id list
AfterOpportunities == IF Len(AllConvIds) > 0 THEN "unread" ELSE "projection"

\* a request may fail when the store is unreachable
MayFail == unreliable /\ failures < MaxFailures

\* Step 1 and Step 2: the conversations fetch, then the grouping
FetchConversations ==
  /\ pc = "conversations"
  /\ roundTrips' = roundTrips \o ConversationsRoundTrips
  /\ \/ \E rows \in ConversationsQuery(userId) :
          LET g == GroupConversations(rows) IN
          /\ analystConversations' = g.canon
          /\ allConversationsByAnalyst' = g.ids
          /\ pc' = IF Len(g.canon) > 0 THEN "analysts" ELSE "applications"
          /\ UNCHANGED <<failures, chats>>
     \/ /\ MayFail
        /\ failures' = failures + 1
        /\ chats' = <<>>
        /\ pc' = "done"
        /\ UNCHANGED <<analystConversations, allConversationsByAnalyst>>
  /\ UNCHANGED <<analystsData, analystsMap, applications, opportunitiesMap,
                 unreadCountsMap, latestMessagesMap>>
  /\ UNCHANGED <<storeVars, imageVars, componentVars>>

\* 3a, first await: the analysts fetch
FetchAnalysts ==
  /\ pc = "analysts"
  /\ roundTrips' = roundTrips \o AnalystsRoundTrips(AnalystIdsArray)
  /\ \/ /\ analystsData' = Some(AnalystsQuery(AnalystIdsArray))
        /\ UNCHANGED failures
     \/ /\ MayFail
        /\ failures' = failures + 1
        /\ analystsData' = Null
  /\ pc' = "profiles"
  /\ UNCHANGED <<analystConversations, allConversationsByAnalyst, analystsMap, applications,
                 opportunitiesMap, unreadCountsMap, latestMessagesMap, chats>>
  /\ UNCHANGED <<storeVars, imageVars, componentVars>>

\* 3a, second await: the profiles fetch, then the fill of analystsMap
FetchProfiles ==
  /\ pc = "profiles"
  /\ roundTrips' = roundTrips \o ProfilesRoundTrips(AnalystIdsArray)
  /\ \/ /\ analystsMap' = FillAnalystsMap(AnalystIdsArray, analystsData,
                                          Some(ProfilesQuery(AnalystIdsArray)))
        /\ UNCHANGED failures
     \/ /\ MayFail
        /\ failures' = failures + 1
        /\ analystsMap' = FillAnalystsMap(AnalystIdsArray, analystsData, Null)
  /\ pc' = "applications"
  /\ UNCHANGED <<analystConversations, allConversationsByAnalyst, analystsData, applications,
                 opportunitiesMap, unreadCountsMap, latestMessagesMap, chats>>
  /\ UNCHANGED <<storeVars, imageVars, componentVars>>

\* 3b: the applications fetch
FetchApplications ==
  /\ pc = "applications"
  /\ roundTrips' = roundTrips \o ApplicationsRoundTrips
  /\ \/ \E rows \in ApplicationsQuery(userId) :
          /\ applications' = Some(rows)
          /\ pc' = IF Len(OpportunityIds(rows)) > 0 THEN "opportunities" ELSE AfterOpportunities
          /\ UNCHANGED failures
     \/ /\ MayFail
        /\ failures' = failures + 1
        /\ applications' = Null
        /\ pc' = AfterOpportunities
  /\ UNCHANGED <<analystConversations, allConversationsByAnalyst, analystsData, analystsMap,
                 opportunitiesMap, unreadCountsMap, latestMessagesMap, chats>>
  /\ UNCHANGED <<storeVars, imageVars, componentVars>>

\* 3c: the opportunities fetch
FetchOpportunities ==
  /\ pc = "opportunities"
  /\ roundTrips' = roundTrips \o OpportunitiesRoundTrips(OpportunityIds(ApplicationsOrEmpty))
  /\ \/ /\ opportunitiesMap' = KeyById(OpportunitiesQuery(OpportunityIds(ApplicationsOrEmpty)))
        /\ UNCHANGED failures
     \/ /\ MayFail
        /\ failures' = failures + 1
        /\ UNCHANGED opportunitiesMap
  /\ pc' = AfterOpportunities
  /\ UNCHANGED <<analystConversations, allConversationsByAnalyst, analystsData, analystsMap,
                 applications, unreadCountsMap, latestMessagesMap, chats>>
  /\ UNCHANGED <<storeVars, imageVars, componentVars>>

\* 3d: the unread messages fetch
FetchUnreadMessages ==
  /\ pc = "unread"
  /\ roundTrips' = roundTrips \o UnreadRoundTrips(AllConvIds)
  /\ \/ /\ unreadCountsMap' = TallyUnread(UnreadMessagesQuery(AllConvIds, userId))
        /\ UNCHANGED failures
     \/ /\ MayFail
        /\ failures' = failures + 1
        /\ UNCHANGED unreadCountsMap
  /\ pc' = "latest"
  /\ UNCHANGED <<analystConversations, allConversationsByAnalyst, analystsData, analystsMap,
                 applications, opportunitiesMap, latestMessagesMap, chats>>
  /\ UNCHANGED <<storeVars, imageVars, componentVars>>

\* 3e: the latest-messages RPC
FetchLatestMessages ==
  /\ pc = "latest"
  /\ roundTrips' = roundTrips \o LatestRoundTrips(AllConvIds)
  /\ \/ \E rows \in LatestMessagesRpc(AllConvIds) :
          /\ latestMessagesMap' = KeyByConversation(rows)
          /\ UNCHANGED failures
     \/ /\ MayFail
        /\ failures' = failures + 1
        /\ UNCHANGED latestMessagesMap
  /\ pc' = "projection"
  /\ UNCHANGED <<analystConversations, allConversationsByAnalyst, analystsData, analystsMap,
                 applications, opportunitiesMap, unreadCountsMap, chats>>
  /\ UNCHANGED <<storeVars, imageVars, componentVars>>

\* Step 4: the projection, in memory
Project ==
  /\ pc = "projection"
  /\ chats' = UnifiedConversations(analystConversations, ApplicationsOrEmpty,
                                   allConversationsByAnalyst, analystsMap, opportunitiesMap,
                                   unreadCountsMap, latestMessagesMap)
  /\ pc' = "done"
  /\ UNCHANGED <<failures, roundTrips, analystConversations, allConversationsByAnalyst,
                 analystsData, analystsMap, applications, opportunitiesMap, unreadCountsMap,
                 latestMessagesMap>>
  /\ UNCHANGED <<storeVars, imageVars, componentVars>>

Next ==
  \/ FetchConversations
  \/ FetchAnalysts
  \/ FetchProfiles
  \/ FetchApplications
  \/ FetchOpportunities
  \/ FetchUnreadMessages
  \/ FetchLatestMessages
  \/ Project

Spec == Init /\ [][Next]_vars

SpecAnyOrder == InitAnyOrder /\ [][Next]_vars

(***************************************************************************)
(* useOpportunityImages: the store's side                                  *)
(***************************************************************************)
\* the images 1..n of the first opportunity in upload order, and one image of the last
\* opportunity
UploadedImages ==
  { { ImageRow(i, 1, i - 1) : i \in 1..n } \cup { ImageRow(MaxImages + 1, MaxOpps, 0) }
    : n \in 0..MaxImages }

\* the orders of a set of rows that are ascending in display_order: rows of equal
\* display_order come in any order
RECURSIVE InDisplayOrder(_)
InDisplayOrder(rows) ==
  IF rows = {} THEN { <<>> }
  ELSE LET firsts == { r \in rows : \A t \in rows : r.display_order <= t.display_order }
       IN  UNION { { <<r>> \o rest : rest \in InDisplayOrder(rows \ {r}) } : r \in firsts }

\* .from('opportunity_images').select('*').eq('opportunity_id', oppId)
\*   .order('display_order', { ascending: true }): the responses the store may give
ImagesQuery(opp) ==
  LET rows == { r \in opportunity_images : r.opportunity_id = opp }
  IN  IF honoursOrder THEN InDisplayOrder(rows) ELSE Orderings(rows)

\* .upsert(updates, { onConflict: 'id' }): a row whose id exists takes the columns of
\* the payload, a row whose id does not exist is inserted with the payload's columns
Upsert(table, payload) ==
  LET sent(r) == payload[CHOOSE i \in 1..Len(payload) : payload[i].id = r.id]
      known == { r.id : r \in table }
  IN  { IF \E i \in 1..Len(payload) : payload[i].id = r.id
        THEN [ r EXCEPT !.opportunity_id = sent(r).opportunity_id,
                        !.display_order = sent(r).display_order ]
        ELSE r : r \in table }
      \cup { [ id |-> u.id, opportunity_id |-> u.opportunity_id, image_url |-> Null,
               display_order |-> u.display_order, created_at |-> NullTime ]
             : u \in { v \in Range(payload) : v.id \notin known } }

\* the store or the bucket answers a request with an error
RequestFails ==
  /\ unreliable
  /\ storageFailures < MaxFailures
  /\ storageFailures' = storageFailures + 1

(***************************************************************************)
(* useOpportunityImages: the calls.  No hook function looks at a call      *)
(* under way: a call starts at any time, the store executes a request at   *)
(* any time after it was sent, and the answer resumes the await at any     *)
(* time after that.                                                        *)
(***************************************************************************)
\* call k is a call of hook function op at position p
At(k, op, p) ==
  /\ k \in DOMAIN hookCalls
  /\ hookCalls[k].op = op
  /\ hookCalls[k].pc = p

\* the calls of hook function op made so far
CallsOf(op) == { k \in DOMAIN hookCalls : hookCalls[k].op = op }

\* call k goes on with the locals c
Resume(k, c) == hookCalls' = [ hookCalls EXCEPT ![k] = c ]

\* the promise of a call settles: its locals are gone
Finished(c, outcome) ==
  [ op |-> c.op, pc |-> "done", requests |-> c.requests, outcome |-> outcome ]

(***************************************************************************)
(* useOpportunityImages: fetchImages and reorderImages                     *)
(***************************************************************************)
FetchErrorMessage == Some("Erro ao carregar imagens da oportunidade")
ReorderErrorMessage == Some("Falha ao salvar a nova ordem das imagens. Tente novamente.")

\* the payload that keeps the display_order each image object carries
UpdatesKeepingDisplayOrder(reorderedImages) ==
  [ index \in 1..Len(reorderedImages) |->
      [ id |-> reorderedImages[index].id,
        opportunity_id |-> reorderedImages[index].opportunity_id,
        display_order |-> reorderedImages[index].display_order ] ]

\* reorderedImages.map((img, index) => ({ id, opportunity_id, display_order: index })):
\* the index of map is 0-based
Updates(reorderedImages) ==
  [ index \in 1..Len(reorderedImages) |->
      [ id |-> reorderedImages[index].id,
        opportunity_id |-> reorderedImages[index].opportunity_id,
        display_order |-> index - 1 ] ]

\* a catch block that ends without throw
ReorderFailureSwallowed == "resolved"

\* the catch block of reorderImages ends with throw err
ReorderFailureOutcome == "rejected"

\* the lists a caller can pass to reorderImages: the images it holds, or some of them,
\* in any order
ReorderInputs == UNION { Orderings(S) : S \in SUBSET Range(images) }

\* the hook and its store before the first call
InitImageStore ==
  /\ opportunity_images \in UploadedImages
  /\ storageObjects = ObjectsOf(opportunity_images)
  /\ honoursOrder = TRUE
  /\ unreliable = TRUE
  /\ conversations = {}
  /\ messages = {}
  /\ opportunity_applications = {}
  /\ opportunities = {}
  /\ analysts = {}
  /\ profiles = {}

InitImages == InitImageStore /\ InitCall /\ InitHook /\ InitComponents

\* fetchImages(oppId) up to its await: setLoading(true), setError(null), the select sent
FetchImagesCall ==
  /\ Len(hookCalls) < MaxCalls
  /\ \E opp \in OppIds :
       hookCalls' = Append(hookCalls,
         [ op |-> "fetchImages", pc |-> "select", oppId |-> opp, data |-> <<>>,
           requests |-> 1, fetchError |-> FALSE, outcome |-> "pending" ])
  /\ loading' = TRUE
  /\ error' = Null
  /\ UNCHANGED <<opportunity_images, images, renders, lastWrite, uploadVars>>
  /\ UNCHANGED <<storeVars, callVars, componentVars>>

\* the store executes the select of call k: the rows of the opportunity as they are
\* now, or an error
SelectServed(k) ==
  /\ At(k, "fetchImages", "select")
  /\ LET c == hookCalls[k]
     IN  \/ /\ \E rows \in ImagesQuery(c.oppId) :
                 Resume(k, [ c EXCEPT !.pc = "selected", !.data = rows ])
            /\ UNCHANGED storageFailures
         \/ /\ RequestFails
            /\ Resume(k, [ c EXCEPT !.pc = "selected", !.fetchError = TRUE ])
  /\ UNCHANGED <<opportunity_images, images, renders, loading, error, lastWrite, storageObjects, now>>
  /\ UNCHANGED <<storeVars, callVars, componentVars>>

\* fetchImages after its await: setImages(data || []), or the catch block; then finally
FetchImagesReturn(k) ==
  /\ At(k, "fetchImages", "selected")
  /\ LET c == hookCalls[k]
     IN  /\ IF c.fetchError
            THEN /\ error' = FetchErrorMessage
                 /\ SetImages(<<>>)
            ELSE /\ SetImages(c.data)
                 /\ UNCHANGED error
         /\ Resume(k, Finished(c, "resolved"))
  /\ loading' = FALSE
  /\ UNCHANGED <<opportunity_images, lastWrite, uploadVars>>
  /\ UNCHANGED <<storeVars, callVars, componentVars>>

\* reorderImages(reorderedImages) up to its await: setError(null), the optimistic
\* setImages(reorderedImages), the payload built and the upsert sent
ReorderImagesCall ==
  /\ Len(hookCalls) < MaxCalls
  /\ \E reorderedImages \in ReorderInputs :
       /\ SetImages(reorderedImages)
       /\ hookCalls' = Append(hookCalls,
            [ op |-> "reorderImages", pc |-> "upsert", updates |-> Updates(reorderedImages),
              requests |-> 1, upsertError |-> FALSE, outcome |-> "pending" ])
  /\ error' = Null
  /\ UNCHANGED <<opportunity_images, loading, lastWrite, uploadVars>>
  /\ UNCHANGED <<storeVars, callVars, componentVars>>

\* the store executes the upsert of call k as a whole, or answers with an error
UpsertServed(k) ==
  /\ At(k, "reorderImages", "upsert")
  /\ LET c == hookCalls[k]
     IN  \/ /\ opportunity_images' = Upsert(opportunity_images, c.updates)
            /\ lastWrite' = Write(k, "upsert", c.updates)
            /\ Resume(k, [ c EXCEPT !.pc = "upserted" ])
            /\ UNCHANGED storageFailures
         \/ /\ RequestFails
            /\ Resume(k, [ c EXCEPT !.pc = "upserted", !.upsertError = TRUE ])
            /\ UNCHANGED <<opportunity_images, lastWrite>>
  /\ UNCHANGED <<images, renders, loading, error, storageObjects, now>>
  /\ UNCHANGED <<storeVars, callVars, componentVars>>

\* reorderImages after its await: nothing more on success; on upsertError the catch
\* block sets the error, leaves the images as they are and rethrows
ReorderImagesReturn(k) ==
  /\ At(k, "reorderImages", "upserted")
  /\ LET c == hookCalls[k]
     IN  IF c.upsertError
         THEN /\ error' = ReorderErrorMessage
              /\ Resume(k, Finished(c, ReorderFailureOutcome))
         ELSE /\ UNCHANGED error
              /\ Resume(k, Finished(c, "resolved"))
  /\ UNCHANGED <<opportunity_images, images, renders, loading, lastWrite, uploadVars>>
  /\ UNCHANGED <<storeVars, callVars, componentVars>>

NextImages ==
  \/ FetchImagesCall
  \/ \E k \in 1..MaxCalls : SelectServed(k)
  \/ \E k \in 1..MaxCalls : FetchImagesReturn(k)
  \/ ReorderImagesCall
  \/ \E k \in 1..MaxCalls : UpsertServed(k)
  \/ \E k \in 1..MaxCalls : ReorderImagesReturn(k)

SpecImages == InitImages /\ [][NextImages]_vars

(***************************************************************************)
(* useOpportunityImages: uploadImages and deleteImage                      *)
(***************************************************************************)
MaxImagesErrorMessage(currentCount) ==
  Some(<<"Maximo de imagens por oportunidade", MAX_IMAGES, "Voce ja tem", currentCount>>)
ValidationErrorMessage == Some("validationError")
UploadErrorMessage == Some("Erro ao fazer upload de uma ou mais imagens")
NotFoundErrorMessage == Some("Imagem nao encontrada")
DeleteErrorMessage == Some("Erro ao deletar imagem")

\* an opportunity that holds MAX_IMAGES images already
FullOpportunityImages == { ImageRow(i, 1, i - 1) : i \in 1..MAX_IMAGES }

\* the files argument of uploadImages: how many files, and whether validateFile accepts
\* all of them
UploadInputs == { f \in [ count : 0..MaxFiles, valid : BOOLEAN ] : f.count = 0 => f.valid }

\* the id argument of deleteImage: an image some render has shown, or an id no image has
UnknownImageId == 0
DeleteInputs == { r.id : r \in UNION { Range(list) : list \in renders } } \cup {UnknownImageId}

\* files.map(async (file, index) => ...) up to its first await: every file waits for
\* createSquareThumbnail
FilesStarted(count) ==
  [ index \in 0..(count - 1) |-> [ pc |-> "thumbnail", fileName |-> Null ] ]

\* the values Date.now() can return: the one it returned last, or the next
ClockReadings == { t \in Times : t = now \/ t = now + 1 }

\* every promise of uploadPromises has settled
AllSettled(c) == \A index \in DOMAIN c.file : c.file[index].pc \in {"resolved", "null"}

\* results.filter(r => r !== null): the indexes of the successful uploads
SuccessfulUploads(c) == { index \in DOMAIN c.file : c.file[index].pc = "resolved" }

\* the indexes of a set of uploads in the order of the files array
InFileOrder(c, indexes) ==
  SelectSeq([ i \in 1..c.files |-> i - 1 ], LAMBDA index : index \in indexes)

\* successfulUploads.map(r => r.fileName), for the uploads of the given indexes
FileNames(c, indexes) ==
  LET order == InFileOrder(c, indexes)
  IN  [ j \in 1..Len(order) |-> c.file[order[j]].fileName[1] ]

\* the names removed when the signed URLs of only some uploads were to be cleaned up
SignedFileNames(c) == FileNames(c, c.signedUploads)

\* .remove(fileNames) of both cleanups: fileNames holds every successful upload
CleanupFileNames(c) == FileNames(c, SuccessfulUploads(c))

\* id uuid DEFAULT gen_random_uuid(): an id no other row has, for the file of index
\* `index` of call k
NewImageId(k, index) == MAX_IMAGES + MaxImages + 1 + (k - 1) * (MaxFiles + 1) + index + 1

\* insertData as the store returns it from .insert(insertData).select(): one row per
\* upload with a signed URL, display_order: currentCount + upload.index
InsertedImages(k, c) ==
  LET order == InFileOrder(c, c.signedUploads)
  IN  [ j \in 1..Len(order) |->
          [ id |-> NewImageId(k, order[j]), opportunity_id |-> c.opportunityId,
            image_url |-> Some(SignedUrl(c.file[order[j]].fileName[1])),
            display_order |-> c.currentCount + order[j], created_at |-> now ] ]

\* [...].sort((a, b) => a.display_order - b.display_order): Array.prototype.sort is
\* stable
RECURSIVE SortByDisplayOrder(_)
SortByDisplayOrder(list) ==
  IF list = <<>> THEN <<>>
  ELSE LET front == SortByDisplayOrder(SubSeq(list, 1, Len(list) - 1))
           last == list[Len(list)]
           before == Cardinality({ i \in 1..Len(front) :
                                     front[i].display_order <= last.display_order })
       IN  SubSeq(front, 1, before) \o <<last>> \o SubSeq(front, before + 1, Len(front))

\* the stores of InitImageStore, or an opportunity with MAX_IMAGES images
UploadStores == UploadedImages \cup {FullOpportunityImages}

InitUploadStore ==
  /\ opportunity_images \in UploadStores
  /\ storageObjects = ObjectsOf(opportunity_images)
  /\ honoursOrder = TRUE
  /\ unreliable = TRUE
  /\ conversations = {}
  /\ messages = {}
  /\ opportunity_applications = {}
  /\ opportunities = {}
  /\ analysts = {}
  /\ profiles = {}

InitUploads == InitUploadStore /\ InitCall /\ InitHook /\ InitComponents

\* an uploadImages call that threw: the catch block does not run for the throws before
\* try, and sets the upload message for those inside
UploadRejected(c, failure) ==
  [ op |-> c.op, pc |-> "done", requests |-> c.requests, outcome |-> "rejected",
    failure |-> failure ]

\* uploadImages(files, oppId) up to its first await: setError(null), the MAX_IMAGES
\* check against images.length, validateFile on every file, the thumbnails started and
\* Promise.all awaited.  uploadImages is created anew by every render and reads the
\* images of that render: the caller calls the function of the last render or one it
\* holds from an earlier render
UploadImagesCall ==
  /\ Len(hookCalls) < MaxCalls
  /\ Cardinality(CallsOf("uploadImages")) < MaxUploads
  /\ \E files \in UploadInputs, opp \in OppIds, closure \in renders :
       LET currentCount == Len(closure)
           c == [ op |-> "uploadImages", pc |-> "uploading", opportunityId |-> opp,
                  files |-> files.count, currentCount |-> currentCount,
                  file |-> FilesStarted(files.count), signError |-> FALSE,
                  signedUploads |-> {}, dbError |-> FALSE, dbData |-> <<>>,
                  removed |-> Null, failure |-> "none", requests |-> 0, outcome |-> "pending" ]
       IN  IF currentCount + files.count > MAX_IMAGES
           THEN /\ error' = MaxImagesErrorMessage(currentCount)
                /\ hookCalls' = Append(hookCalls, UploadRejected(c, "limit"))
           ELSE IF ~files.valid
           THEN /\ error' = ValidationErrorMessage
                /\ hookCalls' = Append(hookCalls, UploadRejected(c, "validation"))
           ELSE /\ error' = Null
                /\ hookCalls' = Append(hookCalls, c)
  /\ UNCHANGED <<opportunity_images, images, renders, loading, lastWrite, uploadVars>>
  /\ UNCHANGED <<storeVars, callVars, componentVars>>

\* after await Promise.all(uploadPromises), every promise having settled (at once for
\* an empty files array): no successful upload throws into the catch block, otherwise
\* createSignedUrls(fileNames) is sent
UploadPromisesReturn(k) ==
  /\ At(k, "uploadImages", "uploading")
  /\ AllSettled(hookCalls[k])
  /\ LET c == hookCalls[k]
     IN  IF SuccessfulUploads(c) = {}
         THEN /\ Resume(k, UploadRejected(c, "upload"))
              /\ error' = UploadErrorMessage
         ELSE /\ Resume(k, [ c EXCEPT !.pc = "sign", !.requests = @ + 1 ])
              /\ UNCHANGED error
  /\ UNCHANGED <<opportunity_images, images, renders, loading, lastWrite, uploadVars>>
  /\ UNCHANGED <<storeVars, callVars, componentVars>>

\* after await createSquareThumbnail of one file: the name is made of Date.now() and
\* the index and the upload is sent; or the thumbnail threw and the promise gives null
ThumbnailDone(k, index) ==
  /\ At(k, "uploadImages", "uploading")
  /\ index \in DOMAIN hookCalls[k].file
  /\ hookCalls[k].file[index].pc = "thumbnail"
  /\ LET c == hookCalls[k]
     IN  \/ /\ \E t \in ClockReadings :
                 /\ now' = t
                 /\ Resume(k, [ c EXCEPT
                      !.file[index] = [ pc |-> "upload",
                                        fileName |-> Some(FileName(c.opportunityId, t, index)) ],
                      !.requests = @ + 1 ])
            /\ UNCHANGED storageFailures
         \/ /\ storageFailures < MaxFailures
            /\ storageFailures' = storageFailures + 1
            /\ Resume(k, [ c EXCEPT !.file[index].pc = "null" ])
            /\ UNCHANGED now
  /\ UNCHANGED <<opportunity_images, images, renders, loading, error, lastWrite, storageObjects>>
  /\ UNCHANGED <<storeVars, callVars, componentVars>>

\* the bucket executes .upload(fileName, blob, { upsert: false }): the object is stored
\* unless one of that name exists; or the bucket answers with an error
UploadServed(k, index) ==
  /\ At(k, "uploadImages", "uploading")
  /\ index \in DOMAIN hookCalls[k].file
  /\ hookCalls[k].file[index].pc = "upload"
  /\ LET c == hookCalls[k]
         fileName == c.file[index].fileName[1]
     IN  \/ /\ fileName \notin storageObjects
            /\ storageObjects' = storageObjects \cup {fileName}
            /\ Resume(k, [ c EXCEPT !.file[index].pc = "uploaded" ])
            /\ UNCHANGED storageFailures
         \/ /\ fileName \in storageObjects
            /\ Resume(k, [ c EXCEPT !.file[index].pc = "uploadError" ])
            /\ UNCHANGED <<storageObjects, storageFailures>>
         \/ /\ RequestFails
            /\ Resume(k, [ c EXCEPT !.file[index].pc = "uploadError" ])
            /\ UNCHANGED storageObjects
  /\ UNCHANGED <<opportunity_images, images, renders, loading, error, lastWrite, now>>
  /\ UNCHANGED <<storeVars, callVars, componentVars>>

\* after await upload of one file: uploadError is thrown and caught, the promise gives
\* null; otherwise it gives { fileName, index }
UploadReturn(k, index) ==
  /\ At(k, "uploadImages", "uploading")
  /\ index \in DOMAIN hookCalls[k].file
  /\ hookCalls[k].file[index].pc \in {"uploaded", "uploadError"}
  /\ LET c == hookCalls[k]
     IN  Resume(k, [ c EXCEPT !.file[index].pc =
                       IF @ = "uploaded" THEN "resolved" ELSE "null" ])
  /\ UNCHANGED <<opportunity_images, images, renders, loading, error, lastWrite, uploadVars>>
  /\ UNCHANGED <<storeVars, callVars, componentVars>>

\* the bucket executes createSignedUrls(fileNames): signError, or one entry per name,
\* of which some may carry an error in place of the URL
SignServed(k) ==
  /\ At(k, "uploadImages", "sign")
  /\ LET c == hookCalls[k]
     IN  \/ /\ RequestFails
            /\ Resume(k, [ c EXCEPT !.pc = "signed", !.signError = TRUE ])
         \/ \E signed \in SUBSET SuccessfulUploads(c) :
              /\ ~unreliable => signed = SuccessfulUploads(c)
              /\ storageFailures + Cardinality(SuccessfulUploads(c) \ signed) <= MaxFailures
              /\ storageFailures' =
                   storageFailures + Cardinality(SuccessfulUploads(c) \ signed)
              /\ Resume(k, [ c EXCEPT !.pc = "signed", !.signedUploads = signed ])
  /\ UNCHANGED <<opportunity_images, images, renders, loading, error, lastWrite, storageObjects, now>>
  /\ UNCHANGED <<storeVars, callVars, componentVars>>

\* after await createSignedUrls(fileNames): signError sends remove(fileNames);
\* otherwise insertData keeps the uploads whose entry carries a signed URL, an empty
\* insertData throws into the catch block, and a non-empty one is sent to insert
SignReturn(k) ==
  /\ At(k, "uploadImages", "signed")
  /\ LET c == hookCalls[k]
     IN  IF c.signError
         THEN /\ Resume(k, [ c EXCEPT !.pc = "remove", !.failure = "sign",
                                      !.removed = Some(CleanupFileNames(c)),
                                      !.requests = @ + 1 ])
              /\ UNCHANGED error
         ELSE IF c.signedUploads = {}
         THEN /\ Resume(k, UploadRejected(c, "prepare"))
              /\ error' = UploadErrorMessage
         ELSE /\ Resume(k, [ c EXCEPT !.pc = "insert", !.requests = @ + 1 ])
              /\ UNCHANGED error
  /\ UNCHANGED <<opportunity_images, images, renders, loading, lastWrite, uploadVars>>
  /\ UNCHANGED <<storeVars, callVars, componentVars>>

\* the store executes insert(insertData).select(): the rows are in the table and come
\* back with their ids; or dbError
InsertServed(k) ==
  /\ At(k, "uploadImages", "insert")
  /\ LET c == hookCalls[k]
         uploadedImages == InsertedImages(k, c)
     IN  \/ /\ opportunity_images' = opportunity_images \cup Range(uploadedImages)
            /\ lastWrite' = Write(k, "insert", <<>>)
            /\ Resume(k, [ c EXCEPT !.pc = "inserted", !.dbData = uploadedImages ])
            /\ UNCHANGED storageFailures
         \/ /\ RequestFails
            /\ Resume(k, [ c EXCEPT !.pc = "inserted", !.dbError = TRUE ])
            /\ UNCHANGED <<opportunity_images, lastWrite>>
  /\ UNCHANGED <<images, renders, loading, error, storageObjects, now>>
  /\ UNCHANGED <<storeVars, callVars, componentVars>>

\* after await insert(insertData).select(): dbError sends remove(fileNames); otherwise
\* setImages(prev => [...prev, ...uploadedImages].sort(...)) and the call returns
InsertReturn(k) ==
  /\ At(k, "uploadImages", "inserted")
  /\ LET c == hookCalls[k]
     IN  IF c.dbError
         THEN /\ Resume(k, [ c EXCEPT !.pc = "remove", !.failure = "insert",
                                      !.removed = Some(CleanupFileNames(c)),
                                      !.requests = @ + 1 ])
              /\ UNCHANGED <<images, renders>>
         ELSE /\ SetImages(SortByDisplayOrder(images \o c.dbData))
              /\ Resume(k, Finished(c, "resolved"))
  /\ UNCHANGED <<opportunity_images, loading, error, lastWrite, uploadVars>>
  /\ UNCHANGED <<storeVars, callVars, componentVars>>

\* the bucket executes remove(fileNames) of a cleanup, or answers with an error
RemoveServed(k) ==
  /\ At(k, "uploadImages", "remove")
  /\ LET c == hookCalls[k]
     IN  /\ \/ storageObjects' = storageObjects \ Range(c.removed[1])
            \/ /\ unreliable
               /\ UNCHANGED storageObjects
         /\ Resume(k, [ c EXCEPT !.pc = "removed" ])
  /\ UNCHANGED <<opportunity_images, images, renders, loading, error, lastWrite, storageFailures, now>>
  /\ UNCHANGED <<storeVars, callVars, componentVars>>

\* after await remove(fileNames) of a cleanup, whose result is not looked at: the error
\* is thrown into the catch block, which sets the message and rethrows
UploadCleanupReturn(k) ==
  /\ At(k, "uploadImages", "removed")
  /\ Resume(k, UploadRejected(hookCalls[k], hookCalls[k].failure))
  /\ error' = UploadErrorMessage
  /\ UNCHANGED <<opportunity_images, images, renders, loading, lastWrite, uploadVars>>
  /\ UNCHANGED <<storeVars, callVars, componentVars>>

\* images.find(img => img.id === imageId), images being that of the function's render
FindImage(closure, imageId) ==
  LET found == SelectSeq(closure, LAMBDA img : img.id = imageId)
  IN  IF found = <<>> THEN Null ELSE Some(found[1])

\* deleteImage(imageId) up to its first await: setError(null); an id that is not in the
\* list sets the message and returns; new URL(null) throws into the catch block;
\* otherwise the removal of the object is sent.  deleteImage is created anew by every
\* render, as uploadImages is
DeleteImageCall ==
  /\ Len(hookCalls) < MaxCalls
  /\ \E imageId \in DeleteInputs, closure \in renders :
       LET imageToDelete == FindImage(closure, imageId)
           c == [ op |-> "deleteImage", pc |-> "remove", imageId |-> imageId,
                  imageToDelete |-> imageToDelete, dbError |-> FALSE, requests |-> 0,
                  outcome |-> "pending" ]
       IN  IF imageToDelete = Null
           THEN /\ error' = NotFoundErrorMessage
                /\ hookCalls' = Append(hookCalls, Finished(c, "resolved"))
           ELSE IF imageToDelete[1].image_url = Null
           THEN /\ error' = DeleteErrorMessage
                /\ hookCalls' = Append(hookCalls, Finished(c, "rejected"))
           ELSE /\ error' = Null
                /\ hookCalls' = Append(hookCalls, [ c EXCEPT !.requests = 1 ])
  /\ UNCHANGED <<opportunity_images, images, renders, loading, lastWrite, uploadVars>>
  /\ UNCHANGED <<storeVars, callVars, componentVars>>

\* the bucket executes remove([fileName]), or answers with storageError
DeleteObjectServed(k) ==
  /\ At(k, "deleteImage", "remove")
  /\ LET fileName == FileNameOfUrl(hookCalls[k].imageToDelete[1].image_url[1])
     IN  \/ /\ storageObjects' = storageObjects \ {fileName}
            /\ UNCHANGED storageFailures
         \/ /\ RequestFails
            /\ UNCHANGED storageObjects
  /\ Resume(k, [ hookCalls[k] EXCEPT !.pc = "removed" ])
  /\ UNCHANGED <<opportunity_images, images, renders, loading, error, lastWrite, now>>
  /\ UNCHANGED <<storeVars, callVars, componentVars>>

\* deleteImage after await remove([fileName]): storageError is logged and the call goes
\* on to send the delete of the row
DeleteObjectReturn(k) ==
  /\ At(k, "deleteImage", "removed")
  /\ Resume(k, [ hookCalls[k] EXCEPT !.pc = "delete", !.requests = @ + 1 ])
  /\ UNCHANGED <<opportunity_images, images, renders, loading, error, lastWrite, uploadVars>>
  /\ UNCHANGED <<storeVars, callVars, componentVars>>

\* the store executes delete().eq('id', imageId), or answers with dbError
DeleteRowServed(k) ==
  /\ At(k, "deleteImage", "delete")
  /\ LET c == hookCalls[k]
     IN  \/ /\ opportunity_images' = { r \in opportunity_images : r.id # c.imageId }
            /\ lastWrite' = Write(k, "delete", <<>>)
            /\ Resume(k, [ c EXCEPT !.pc = "deleted" ])
            /\ UNCHANGED storageFailures
         \/ /\ RequestFails
            /\ Resume(k, [ c EXCEPT !.pc = "deleted", !.dbError = TRUE ])
            /\ UNCHANGED <<opportunity_images, lastWrite>>
  /\ UNCHANGED <<images, renders, loading, error, storageObjects, now>>
  /\ UNCHANGED <<storeVars, callVars, componentVars>>

\* deleteImage after await delete().eq('id', imageId): setImages(prev => prev.filter(...))
\* on success; dbError is thrown into the catch block, which sets the message and
\* rethrows
DeleteRowReturn(k) ==
  /\ At(k, "deleteImage", "deleted")
  /\ LET c == hookCalls[k]
     IN  IF c.dbError
         THEN /\ error' = DeleteErrorMessage
              /\ Resume(k, Finished(c, "rejected"))
              /\ UNCHANGED <<images, renders>>
         ELSE /\ SetImages(SelectSeq(images, LAMBDA img : img.id # c.imageId))
              /\ Resume(k, Finished(c, "resolved"))
              /\ UNCHANGED error
  /\ UNCHANGED <<opportunity_images, loading, lastWrite, uploadVars>>
  /\ UNCHANGED <<storeVars, callVars, componentVars>>

\* the indexes of the files of a call
FileIndexes == 0..(MaxFiles - 1)

\* the steps of the uploadImages calls
UploadSteps ==
  \/ UploadImagesCall
  \/ \E k \in 1..MaxCalls, index \in FileIndexes : ThumbnailDone(k, index)
  \/ \E k \in 1..MaxCalls, index \in FileIndexes : UploadServed(k, index)
  \/ \E k \in 1..MaxCalls, index \in FileIndexes : UploadReturn(k, index)
  \/ \E k \in 1..MaxCalls : UploadPromisesReturn(k)
  \/ \E k \in 1..MaxCalls : SignServed(k)
  \/ \E k \in 1..MaxCalls : SignReturn(k)
  \/ \E k \in 1..MaxCalls : InsertServed(k)
  \/ \E k \in 1..MaxCalls : InsertReturn(k)
  \/ \E k \in 1..MaxCalls : RemoveServed(k)
  \/ \E k \in 1..MaxCalls : UploadCleanupReturn(k)

\* uploadImages alone, its calls overlapping
NextUploadImages == UploadSteps

\* the first opportunity holds MaxImages images, or MAX_IMAGES of them, none fetched
InitUploadImages ==
  /\ InitUploads
  /\ Cardinality({ r \in opportunity_images : r.opportunity_id = 1 }) >= MaxImages

SpecUploadImages == InitUploadImages /\ [][NextUploadImages]_vars

\* fetchImages and deleteImage, their calls overlapping
NextDeleteImages ==
  \/ FetchImagesCall
  \/ \E k \in 1..MaxCalls : SelectServed(k)
  \/ \E k \in 1..MaxCalls : FetchImagesReturn(k)
  \/ DeleteImageCall
  \/ \E k \in 1..MaxCalls : DeleteObjectServed(k)
  \/ \E k \in 1..MaxCalls : DeleteObjectReturn(k)
  \/ \E k \in 1..MaxCalls : DeleteRowServed(k)
  \/ \E k \in 1..MaxCalls : DeleteRowReturn(k)

SpecDeleteImages == InitImages /\ [][NextDeleteImages]_vars

(***************************************************************************)
(* RatingModal                                                             *)
(***************************************************************************)
\* a row of six star buttons
SixStars == {1, 2, 3, 4, 5, 6}

\* [1, 2, 3, 4, 5].map((star) => ...): the star buttons
Stars == {1, 2, 3, 4, 5}

\* the texts typed into the feedback field
Feedbacks == {"", "great"}

\* the chat service and the image hook at rest, their tables empty
InitServicesIdle ==
  /\ conversations = {}
  /\ messages = {}
  /\ opportunity_applications = {}
  /\ opportunities = {}
  /\ analysts = {}
  /\ profiles = {}
  /\ honoursOrder = TRUE
  /\ unreliable = FALSE
  /\ InitCall
  /\ opportunity_images = {}
  /\ storageObjects = {}
  /\ InitHook

InitRatingModal ==
  InitServicesIdle /\ InitModal /\ InitRatingsTable /\ InitBenchIdle /\ InitDashboardIdle

\* if (rating === 0) return; : whether handleSubmit goes on to onSubmit
SubmitsRating(r) == r # 0

\* the parent opens the modal
OpenModal ==
  /\ ~isOpen
  /\ isOpen' = TRUE
  /\ UNCHANGED <<rating, hoverRating, feedback, isSubmitting, handleSubmitRuns, onSubmitCalls>>
  /\ UNCHANGED notModalVars

\* onClose (the X button or Cancelar): the parent closes the modal; the state values
\* of the component stay
CloseModal ==
  /\ isOpen
  /\ isOpen' = FALSE
  /\ UNCHANGED <<rating, hoverRating, feedback, isSubmitting, handleSubmitRuns, onSubmitCalls>>
  /\ UNCHANGED notModalVars

\* onClick of a star: setRating(star)
ClickStar ==
  /\ isOpen
  /\ \E star \in Stars : rating' = star
  /\ UNCHANGED <<hoverRating, feedback, isOpen, isSubmitting, handleSubmitRuns, onSubmitCalls>>
  /\ UNCHANGED notModalVars

\* onMouseEnter of a star: setHoverRating(star)
MouseEnterStar ==
  /\ isOpen
  /\ \E star \in Stars : hoverRating' = star
  /\ UNCHANGED <<rating, feedback, isOpen, isSubmitting, handleSubmitRuns, onSubmitCalls>>
  /\ UNCHANGED notModalVars

\* onMouseLeave of a star: setHoverRating(0)
MouseLeaveStar ==
  /\ isOpen
  /\ hoverRating' = 0
  /\ UNCHANGED <<rating, feedback, isOpen, isSubmitting, handleSubmitRuns, onSubmitCalls>>
  /\ UNCHANGED notModalVars

\* onChange of the textarea: setFeedback(e.target.value)
EditFeedback ==
  /\ isOpen
  /\ \E text \in Feedbacks : feedback' = text
  /\ UNCHANGED <<rating, hoverRating, isOpen, isSubmitting, handleSubmitRuns, onSubmitCalls>>
  /\ UNCHANGED notModalVars

\* disabled={rating === 0 || isSubmitting} of the submit button
SubmitDisabled == rating = 0 \/ isSubmitting

\* a click on the submit button, which delivers no click while disabled: handleSubmit
\* returns at once for rating 0, else calls onSubmit(rating, feedback)
HandleSubmit ==
  /\ isOpen
  /\ ~SubmitDisabled
  /\ handleSubmitRuns < MaxSubmits
  /\ handleSubmitRuns' = handleSubmitRuns + 1
  /\ IF SubmitsRating(rating)
     THEN onSubmitCalls' = Append(onSubmitCalls, [ rating |-> rating, feedback |-> feedback ])
     ELSE UNCHANGED onSubmitCalls
  /\ UNCHANGED <<rating, hoverRating, feedback, isOpen, isSubmitting>>
  /\ UNCHANGED notModalVars

\* the parent renders the modal with the other value of isSubmitting
SetSubmitting ==
  /\ isSubmitting' = ~isSubmitting
  /\ UNCHANGED <<rating, hoverRating, feedback, isOpen, handleSubmitRuns, onSubmitCalls>>
  /\ UNCHANGED notModalVars

NextRatingModal ==
  \/ OpenModal
  \/ CloseModal
  \/ ClickStar
  \/ MouseEnterStar
  \/ MouseLeaveStar
  \/ EditFeedback
  \/ HandleSubmit
  \/ SetSubmitting

SpecRatingModal == InitRatingModal /\ [][NextRatingModal]_vars

(***************************************************************************)
(* project_ratings                                                         *)
(***************************************************************************)
\* an application of another creator
ForeignApplication ==
  [ ApplicationRow(MaxApps + 1, 1, "approved") EXCEPT !.creator_id = otherCreator ]

\* the rows a client may try to insert: any application id (one of them of another
\* creator, one of no application), any integer rating around the range, feedback or none
RatingRows ==
  [ application_id : 1..(MaxApps + 2), rating : 0..6, feedback : {Null, Some("great")} ]

\* policy "Creators can insert ratings for their own applications": WITH CHECK
RatingPolicyAllows(row, uid) ==
  \E oa \in opportunity_applications : oa.id = row.application_id /\ oa.creator_id = uid

\* rating integer NOT NULL CHECK (rating >= 1 AND rating <= 5)
RatingCheck(row) == row.rating >= 1 /\ row.rating <= 5

\* a table without the constraint unique_application_rating
NoUniqueConstraint(table, row) == FALSE

\* CONSTRAINT unique_application_rating UNIQUE (application_id): the row conflicts
UniqueApplicationRatingConflict(table, row) ==
  \E r \in table : r.application_id = row.application_id

\* the answer of the store to INSERT INTO project_ratings by user uid: the policy is
\* checked first, then the CHECK constraint, then the unique index
InsertRatingAnswer(table, row, uid) ==
  IF ~RatingPolicyAllows(row, uid) THEN "policy_violation"
  ELSE IF ~RatingCheck(row) THEN "check_violation"
  ELSE IF UniqueApplicationRatingConflict(table, row) THEN "unique_violation"
  ELSE "inserted"

InitRatings ==
  /\ conversations = {}
  /\ messages = {}
  /\ opportunity_applications = FixtureApplications \cup {ForeignApplication}
  /\ opportunities = SpreadOpportunities
  /\ analysts = {}
  /\ profiles = {}
  /\ honoursOrder = TRUE
  /\ unreliable = FALSE
  /\ InitCall
  /\ opportunity_images = {}
  /\ storageObjects = {}
  /\ InitHook
  /\ InitModal
  /\ InitRatingsTable
  /\ InitBenchIdle
  /\ InitDashboardIdle

\* one INSERT INTO project_ratings (application_id, rating, feedback) by the creator
InsertRating ==
  /\ ratingInserts < MaxInserts
  /\ \E row \in RatingRows :
       /\ ratingRequest' = Some(row)
       /\ ratingOutcome' = InsertRatingAnswer(project_ratings, row, userId)
       /\ project_ratings' =
            IF InsertRatingAnswer(project_ratings, row, userId) = "inserted"
            THEN project_ratings \cup { [ id |-> ratingInserts + 1,
                                          application_id |-> row.application_id,
                                          rating |-> row.rating,
                                          feedback |-> row.feedback ] }
            ELSE project_ratings
  /\ ratingInserts' = ratingInserts + 1
  /\ UNCHANGED notRatingVars

NextRatings == InsertRating

SpecRatings == InitRatings /\ [][NextRatings]_vars

(***************************************************************************)
(* runBenchmark: analyst-side consolidation, old and new logic             *)
(***************************************************************************)
ANALYST_ID == "analyst-1"
otherAnalyst == "analyst-2"

\* the creators: two that may have conversations with the analyst, one that has none
BenchCreators == {1, 2}
CreatorWithoutConversation == 3

BenchConversation(i, creator, analyst) ==
  [ id |-> i, analyst_id |-> analyst, creator_id |-> creator ]

BenchApplication(i, creator, opp, status) ==
  [ id |-> i, opportunity_id |-> opp, creator_id |-> creator, status |-> status,
    applied_at |-> <<"applied", i>> ]

BenchOpportunity(j, analyst) ==
  [ id |-> j, title |-> <<"Opportunity", j>>, company |-> <<"Company", j>>,
    analyst_id |-> analyst ]

\* conversation arrays of 0..MaxConvs rows, each of any creator with either analyst
AnyBenchConversations ==
  UNION { { [ i \in 1..n |-> BenchConversation(i, cr[i], an[i]) ]
            : cr \in [1..n -> BenchCreators], an \in [1..n -> {ANALYST_ID, otherAnalyst}] }
          : n \in 0..MaxConvs }

\* application arrays of 0..MaxApps rows, each of any creator for any opportunity,
\* approved or pending
AnyBenchApplications ==
  UNION { { [ i \in 1..n |-> BenchApplication(i, cr[i], op[i], st[i]) ]
            : cr \in [1..n -> BenchCreators \cup {CreatorWithoutConversation}],
              op \in [1..n -> OppIds], st \in [1..n -> {"approved", "pending"}] }
          : n \in 0..MaxApps }

\* opportunity arrays: each id missing, or owned by either analyst
AnyBenchOpportunities ==
  { SelectSeq([ j \in 1..MaxOpps |-> BenchOpportunity(j, ow[j]) ],
              LAMBDA o : o.analyst_id # "")
    : ow \in [OppIds -> {"", ANALYST_ID, otherAnalyst}] }

\* the mock data of the script: a conversation per creator, an approved application
\* per opportunity, every opportunity of the analyst
FixtureBenchConversations ==
  [ i \in 1..Cardinality(BenchCreators) |-> BenchConversation(i, i, ANALYST_ID) ]
FixtureBenchApplications ==
  [ i \in 1..MaxApps |->
      BenchApplication(i, ((i - 1) % Cardinality(BenchCreators)) + 1, ((i - 1) % MaxOpps) + 1,
                       "approved") ]
FixtureBenchOpportunities ==
  [ j \in 1..MaxOpps |-> BenchOpportunity(j, ANALYST_ID) ]

\* MockQueryBuilder.execute for .from('conversations').eq('analyst_id', analyst)
BenchConversationsQuery(analyst) ==
  SelectSeq(CONVERSATIONS, LAMBDA c : c.analyst_id = analyst)

\* the first-seen conversation of each creator, in first-seen order
\* (creatorConversations.values())
RECURSIVE CreatorConversations(_)
CreatorConversations(rows) ==
  IF rows = <<>> THEN <<>>
  ELSE LET before == CreatorConversations(SubSeq(rows, 1, Len(rows) - 1))
           conv == rows[Len(rows)]
       IN  IF \E k \in 1..Len(before) : before[k].creator_id = conv.creator_id
           THEN before
           ELSE Append(before, conv)

\* one entry of formattedProjects
BenchProject(app, opportunity) ==
  [ id |-> app.id, opportunity_id |-> app.opportunity_id,
    opportunity_title |-> opportunity.title, status |-> "active",
    started_at |-> app.applied_at ]

\* OLD: .from('opportunity_applications').eq('creator_id', c).eq('status', 'approved')
OldApplicationsQuery(creator) ==
  SelectSeq(APPLICATIONS, LAMBDA a : a.creator_id = creator /\ a.status = "approved")

\* OLD: .from('opportunities').eq('id', id).eq('analyst_id', ANALYST_ID).maybeSingle():
\* the first matching row, or null
OldOpportunityQuery(id) ==
  LET found == SelectSeq(OPPORTUNITIES,
                         LAMBDA o : o.id = id /\ o.analyst_id = ANALYST_ID)
  IN  IF Len(found) > 0 THEN Some(found[1]) ELSE Null

\* OLD: the projects of one creator, one opportunities query per application
OldFormattedProjects(creator) ==
  LET apps == OldApplicationsQuery(creator)
      withOpportunity == SelectSeq(apps, LAMBDA a : OldOpportunityQuery(a.opportunity_id) # Null)
  IN  [ i \in 1..Len(withOpportunity) |->
          BenchProject(withOpportunity[i],
                       OldOpportunityQuery(withOpportunity[i].opportunity_id)[1]) ]

OldLogic ==
  LET convs == CreatorConversations(BenchConversationsQuery(ANALYST_ID))
  IN  [ k \in 1..Len(convs) |->
          [ id |-> convs[k].id, creator_id |-> convs[k].creator_id,
            projects |-> OldFormattedProjects(convs[k].creator_id) ] ]

\* NEW: the embedded opportunity of an application: OPPORTUNITIES.find(o => o.id === ...)
EmbeddedOpportunity(app) ==
  LET found == SelectSeq(OPPORTUNITIES, LAMBDA o : o.id = app.opportunity_id)
  IN  IF Len(found) > 0 THEN Some(found[1]) ELSE Null

\* NEW: .from('opportunity_applications').in('creator_id', ids).eq('status', 'approved')
NewApplicationsQuery(creatorIds) ==
  SelectSeq(APPLICATIONS, LAMBDA a : a.creator_id \in creatorIds /\ a.status = "approved")

\* the in-memory filter without the test of the analyst
HasOpportunity(app) == EmbeddedOpportunity(app) # Null

\* NEW: opp && opp.analyst_id === ANALYST_ID
IsRelevant(app) ==
  /\ EmbeddedOpportunity(app) # Null
  /\ EmbeddedOpportunity(app)[1].analyst_id = ANALYST_ID

\* NEW: the projects of one creator out of the one batched response
NewFormattedProjects(creator, allApplications) ==
  LET creatorApps == SelectSeq(SelectSeq(allApplications, IsRelevant),
                               LAMBDA a : a.creator_id = creator)
  IN  [ i \in 1..Len(creatorApps) |->
          BenchProject(creatorApps[i], EmbeddedOpportunity(creatorApps[i])[1]) ]

NewLogic ==
  LET convs == CreatorConversations(BenchConversationsQuery(ANALYST_ID))
      creatorIds == { convs[k].creator_id : k \in 1..Len(convs) }
      allApplications == NewApplicationsQuery(creatorIds)
  IN  [ k \in 1..Len(convs) |->
          [ id |-> convs[k].id, creator_id |-> convs[k].creator_id,
            projects |-> NewFormattedProjects(convs[k].creator_id, allApplications) ] ]

\* the mock store of a run: the conversations vary, or the applications and the
\* opportunities do
InitBenchStore ==
  \/ /\ CONVERSATIONS \in AnyBenchConversations
     /\ APPLICATIONS = FixtureBenchApplications
     /\ OPPORTUNITIES = FixtureBenchOpportunities
  \/ /\ CONVERSATIONS = FixtureBenchConversations
     /\ APPLICATIONS \in AnyBenchApplications
     /\ OPPORTUNITIES \in AnyBenchOpportunities

InitBenchmark ==
  /\ InitServicesIdle
  /\ InitModal
  /\ InitRatingsTable
  /\ InitBenchStore
  /\ InitDashboardIdle
  /\ benchPc = "start"
  /\ unifiedConversationsOld = <<>>
  /\ unifiedConversationsNew = <<>>

RunOldLogic ==
  /\ benchPc = "start"
  /\ unifiedConversationsOld' = OldLogic
  /\ benchPc' = "old-done"
  /\ UNCHANGED <<CONVERSATIONS, APPLICATIONS, OPPORTUNITIES, unifiedConversationsNew>>
  /\ UNCHANGED notBenchVars

RunNewLogic ==
  /\ benchPc = "old-done"
  /\ unifiedConversationsNew' = NewLogic
  /\ benchPc' = "validation"
  /\ UNCHANGED <<CONVERSATIONS, APPLICATIONS, OPPORTUNITIES, unifiedConversationsOld>>
  /\ UNCHANGED notBenchVars

NextBenchmark == RunOldLogic \/ RunNewLogic

SpecBenchmark == InitBenchmark /\ [][NextBenchmark]_vars

(***************************************************************************)
(* AnalystOverview: fetchDashboardData                                     *)
(***************************************************************************)
\* user.id of the analyst who looks at the dashboard
analystUserId == 1

\* .limit(5)
RecentLimit == 5

\* an opportunity as the dashboard reads it; opportunity i was created at time i
DashboardOpportunity(i, by, status) ==
  [ id |-> i, created_by |-> by, status |-> status, created_at |-> i ]

\* the statuses an opportunity is created with or moved to
OpportunityStatuses == {"ativo", "concluido"}

\* the four requests of the Promise.all
CountQueries == {"active", "completed", "total", "apps"}

\* .eq('created_by', user.id)
OwnOpportunities == { o \in opportunities : o.created_by = analystUserId }

\* select('*', { count: 'exact', head: true }) with the filters of each request; the
\* applications request has no filter, row level security leaves the applications of
\* the user's opportunities
CountOf(query) ==
  CASE query = "active" -> Cardinality({ o \in OwnOpportunities : o.status = "ativo" })
    [] query = "completed" ->
         Cardinality({ o \in OwnOpportunities : o.status = "concluido" })
    [] query = "total" -> Cardinality(OwnOpportunities)
    [] query = "apps" ->
         Cardinality({ a \in opportunity_applications :
                         \E o \in OwnOpportunities : o.id = a.opportunity_id })

\* .order('created_at', { ascending: false })
RECURSIVE NewestFirst(_)
NewestFirst(rows) ==
  IF rows = {} THEN <<>>
  ELSE LET newest == CHOOSE r \in rows : \A t \in rows : t.created_at <= r.created_at
       IN  <<newest>> \o NewestFirst(rows \ {newest})

\* the recent opportunities request: the newest RecentLimit opportunities of the user
RecentQuery ==
  LET all == NewestFirst(OwnOpportunities)
  IN  SubSeq(all, 1, IF Len(all) < RecentLimit THEN Len(all) ELSE RecentLimit)

\* appsForRecent.reduce(...) and recentOpp.map(op => ({ ...op, candidates_count })):
\* each recent opportunity with the number of its applications
WithCandidateCounts(recentOpp) ==
  [ k \in 1..Len(recentOpp) |->
      [ id |-> recentOpp[k].id, created_by |-> recentOpp[k].created_by,
        status |-> recentOpp[k].status, created_at |-> recentOpp[k].created_at,
        candidates_count |->
          Cardinality({ a \in opportunity_applications :
                          a.opportunity_id = recentOpp[k].id }) ] ]

\* the store the dashboard is opened on: one opportunity of the user and one of another
\* analyst
InitDashboardStore ==
  /\ opportunities = { DashboardOpportunity(1, analystUserId, "ativo"),
                       DashboardOpportunity(MaxOpps + 1, analystUserId + 1, "ativo") }
  /\ opportunity_applications = {}
  /\ conversations = {}
  /\ messages = {}
  /\ analysts = {}
  /\ profiles = {}
  /\ honoursOrder = TRUE
  /\ unreliable = FALSE

InitDashboard ==
  /\ InitDashboardStore
  /\ InitCall
  /\ opportunity_images = {}
  /\ storageObjects = {}
  /\ InitHook
  /\ InitComponents

\* fetchDashboardData() up to its first await: setLoading(true), the four count
\* requests sent; the tab-visibility callback runs at any time after the mount effect
\* has, whether the invocation of the mount effect is under way or has ended
FetchDashboardDataCall(i) ==
  /\ dashboardCalls[i].pc = "idle"
  /\ i > 1 => dashboardCalls[i - 1].pc # "idle"
  /\ dashboardLoading' = TRUE
  /\ dashboardCalls' = [ dashboardCalls EXCEPT ![i].pc = "counts" ]
  /\ UNCHANGED <<stats, recentOpportunities, opportunities, opportunity_applications>>
  /\ UNCHANGED notDashboardVars

\* the store answers one of the count requests of an invocation
ServeCount(i) ==
  /\ dashboardCalls[i].pc = "counts"
  /\ \E query \in CountQueries \ DOMAIN dashboardCalls[i].counts :
       dashboardCalls' = [ dashboardCalls EXCEPT ![i].counts = @ @@ (query :> CountOf(query)) ]
  /\ UNCHANGED <<stats, recentOpportunities, dashboardLoading, opportunities,
                 opportunity_applications>>
  /\ UNCHANGED notDashboardVars

\* after await Promise.all([...]): setStats({...}), the recent opportunities request sent
DeliverCounts(i) ==
  /\ dashboardCalls[i].pc = "counts"
  /\ DOMAIN dashboardCalls[i].counts = CountQueries
  /\ LET counts == dashboardCalls[i].counts
     IN  stats' = StatsOf(counts["active"], counts["total"], counts["completed"],
                          counts["apps"])
  /\ dashboardCalls' = [ dashboardCalls EXCEPT ![i].pc = "recent" ]
  /\ UNCHANGED <<recentOpportunities, dashboardLoading, opportunities,
                 opportunity_applications>>
  /\ UNCHANGED notDashboardVars

\* the store answers the recent opportunities request
ServeRecent(i) ==
  /\ dashboardCalls[i].pc = "recent"
  /\ dashboardCalls' = [ dashboardCalls EXCEPT ![i].pc = "recentServed",
                                                ![i].recentOpp = RecentQuery,
                                                ![i].recentWithCounts = RecentQuery ]
  /\ UNCHANGED <<stats, recentOpportunities, dashboardLoading, opportunities,
                 opportunity_applications>>
  /\ UNCHANGED notDashboardVars

\* after the await of the recent opportunities: with none, setRecentOpportunities([])
\* and finally setLoading(false); otherwise the applications request is sent
DeliverRecent(i) ==
  /\ dashboardCalls[i].pc = "recentServed"
  /\ IF Len(dashboardCalls[i].recentOpp) > 0
     THEN /\ dashboardCalls' = [ dashboardCalls EXCEPT ![i].pc = "apps" ]
          /\ UNCHANGED <<recentOpportunities, dashboardLoading>>
     ELSE /\ recentOpportunities' = dashboardCalls[i].recentWithCounts
          /\ dashboardLoading' = FALSE
          /\ dashboardCalls' = [ dashboardCalls EXCEPT ![i].pc = "done" ]
  /\ UNCHANGED <<stats, opportunities, opportunity_applications>>
  /\ UNCHANGED notDashboardVars

\* the store answers the applications request
ServeApplications(i) ==
  /\ dashboardCalls[i].pc = "apps"
  /\ dashboardCalls' =
       [ dashboardCalls EXCEPT ![i].pc = "appsServed",
                               ![i].recentWithCounts =
                                  WithCandidateCounts(dashboardCalls[i].recentOpp) ]
  /\ UNCHANGED <<stats, recentOpportunities, dashboardLoading, opportunities,
                 opportunity_applications>>
  /\ UNCHANGED notDashboardVars

\* after the await of the applications: setRecentOpportunities(recentWithCounts), and
\* finally setLoading(false)
DeliverApplications(i) ==
  /\ dashboardCalls[i].pc = "appsServed"
  /\ recentOpportunities' = dashboardCalls[i].recentWithCounts
  /\ dashboardLoading' = FALSE
  /\ dashboardCalls' = [ dashboardCalls EXCEPT ![i].pc = "done" ]
  /\ UNCHANGED <<stats, opportunities, opportunity_applications>>
  /\ UNCHANGED notDashboardVars

\* the analyst creates an opportunity, from another tab or device, at any time
CreateOpportunity ==
  /\ Cardinality(OwnOpportunities) < MaxOpps
  /\ \E status \in OpportunityStatuses :
       opportunities' = opportunities \cup
         { DashboardOpportunity(Cardinality(OwnOpportunities) + 1, analystUserId, status) }
  /\ UNCHANGED <<opportunity_applications, dashboardVars>>
  /\ UNCHANGED notDashboardVars

\* a creator applies to an opportunity of the analyst
CreateApplication ==
  /\ Cardinality(opportunity_applications) < MaxApps
  /\ \E o \in OwnOpportunities :
       opportunity_applications' = opportunity_applications \cup
         { ApplicationRow(Cardinality(opportunity_applications) + 1, o.id, "pending") }
  /\ UNCHANGED <<opportunities, dashboardVars>>
  /\ UNCHANGED notDashboardVars

NextDashboard ==
  \/ \E i \in DashboardCalls : FetchDashboardDataCall(i)
  \/ \E i \in DashboardCalls : ServeCount(i)
  \/ \E i \in DashboardCalls : DeliverCounts(i)
  \/ \E i \in DashboardCalls : ServeRecent(i)
  \/ \E i \in DashboardCalls : DeliverRecent(i)
  \/ \E i \in DashboardCalls : ServeApplications(i)
  \/ \E i \in DashboardCalls : DeliverApplications(i)
  \/ CreateOpportunity
  \/ CreateApplication

SpecDashboard == InitDashboard /\ [][NextDashboard]_vars

(***************************************************************************)
(* Vocabulary of the properties                                            *)
(***************************************************************************)
\* the conversation rows of the actor: what the initial fetch returns
ActorConversations == { c \in conversations : c.creator_id = userId }

\* the initial fetch failed and the call returned at once
ConversationsFailed == pc = "done" /\ roundTrips = <<"conversations">>

\* the grouping step has run
Grouped == pc # "conversations" /\ ~ConversationsFailed

\* the call has returned its list
Returned == pc = "done"

\* the analyst whose group a ProjectChat was emitted for: the analyst of its conversation
AnalystOfChat(chat) ==
  (CHOOSE c \in conversations : c.id = chat.conversation_id).analyst_id

\* the ids of the raw conversations of the actor with analyst a
ConversationsWith(a) == { c.id : c \in { x \in ActorConversations : x.analyst_id = a } }

\* the unread messages of others in the conversations of the actor with analyst a
UnreadOfGroup(a) ==
  { m \in messages : /\ m.read = FALSE
                     /\ m.sender_id # userId
                     /\ m.conversation_id \in ConversationsWith(a) }

\* the messages in the conversations of the actor with analyst a
MessagesOfGroup(a) == { m \in messages : m.conversation_id \in ConversationsWith(a) }

\* the approved applications of the actor whose opportunity exists and is owned by a
EligibleApplications(a) ==
  { app \in opportunity_applications :
      /\ app.creator_id = userId
      /\ app.status = "approved"
      /\ \E o \in opportunities : o.id = app.opportunity_id /\ o.analyst_id = a }

(***************************************************************************)
(* C1                                                                      *)
(***************************************************************************)
\* C1: one call of fetchCreatorChats issues at most 7 store round-trips, whatever the
\* store holds, and no query is issued more than once (none per conversation, per
\* analyst group or per application).
C1_BoundedRoundTrips ==
  /\ Len(roundTrips) <= 7
  /\ \A i, j \in 1..Len(roundTrips) : i # j => roundTrips[i] # roundTrips[j]

\* a call that returned after all 7 round-trips, over several conversations and
\* several ProjectChats
C1_Witness ==
  /\ Returned
  /\ Len(roundTrips) = 7
  /\ Cardinality(ActorConversations) >= 3
  /\ Len(chats) >= 2

(***************************************************************************)
(* C2                                                                      *)
(***************************************************************************)
\* C2: after the grouping step every conversation row returned by the initial fetch is
\* exactly once in the id list of the group keyed by its analyst_id and in no other
\* list; a counterpart with k raw conversations has a list of exactly k ids.
C2_EachConversationInOneGroup ==
  Grouped =>
    /\ \A c \in ActorConversations :
         /\ c.analyst_id \in DOMAIN allConversationsByAnalyst
         /\ Cardinality({ i \in 1..Len(allConversationsByAnalyst[c.analyst_id]) :
                            allConversationsByAnalyst[c.analyst_id][i] = c.id }) = 1
         /\ \A a \in DOMAIN allConversationsByAnalyst :
              a # c.analyst_id => c.id \notin Range(allConversationsByAnalyst[a])
    /\ \A a \in DOMAIN allConversationsByAnalyst :
         Len(allConversationsByAnalyst[a]) = Cardinality(ConversationsWith(a))

\* a group of 3 conversations whose canonical metadata was replaced: its canonical
\* conversation is not the first one seen
C2_Witness ==
  /\ Grouped
  /\ \E i \in 1..Len(analystConversations) :
       LET g == analystConversations[i] IN
       /\ Len(allConversationsByAnalyst[g.analyst_id]) = 3
       /\ g.id # allConversationsByAnalyst[g.analyst_id][1]

(***************************************************************************)
(* C3                                                                      *)
(***************************************************************************)
\* m is strictly more recent than o, null counting as older than any timestamp
StrictlyNewer(m, o) ==
  /\ m.last_message_at # NullTime
  /\ o.last_message_at = NullTime \/ m.last_message_at > o.last_message_at

\* C3: when one conversation of a group is strictly more recent than every other one of
\* the group, the group's canonical id, last_message_at, custom_title and tags are those
\* of that conversation, in whatever order the store returned the rows.
C3_CanonicalIsStrictlyNewest ==
  Grouped =>
    \A i \in 1..Len(analystConversations) :
      LET g == analystConversations[i] IN
      \A m \in ActorConversations :
        ( /\ m.analyst_id = g.analyst_id
          /\ \A o \in ActorConversations :
               (o.analyst_id = g.analyst_id /\ o.id # m.id) => StrictlyNewer(m, o) )
        => /\ g.id = m.id
           /\ g.last_message_at = m.last_message_at
           /\ g.custom_title = m.custom_title
           /\ g.tags = m.tags

\* a store that ignores the order asked for returned, last of the 3 conversations of a
\* group, the one strictly more recent than the two others
C3_Witness ==
  /\ Grouped
  /\ ~honoursOrder
  /\ \E i \in 1..Len(analystConversations) :
       LET g == analystConversations[i]
           ids == allConversationsByAnalyst[g.analyst_id]
       IN  /\ Len(ids) = 3
           /\ g.id = ids[3]
           /\ \A o \in ActorConversations :
                (o.analyst_id = g.analyst_id /\ o.id # g.id) => StrictlyNewer(g, o)

(***************************************************************************)
(* C4                                                                      *)
(***************************************************************************)
\* C4: the unread_count emitted for a counterpart group is the number of messages with
\* read = false and a sender other than the actor in any conversation of the group.
C4_UnreadCountIsGroupTotal ==
  Returned =>
    \A i \in 1..Len(chats) :
      chats[i].unread_count = Cardinality(UnreadOfGroup(AnalystOfChat(chats[i])))

(***************************************************************************)
(* C5                                                                      *)
(***************************************************************************)
\* C5: the lastMessage emitted for a counterpart group is the message with the greatest
\* created_at among the messages of the group's conversations, and null exactly when
\* the group has no message.
C5_LastMessageIsGroupNewest ==
  Returned =>
    \A i \in 1..Len(chats) :
      LET ms == MessagesOfGroup(AnalystOfChat(chats[i])) IN
      IF ms = {} THEN chats[i].lastMessage = Null
      ELSE /\ chats[i].lastMessage # Null
           /\ \E m \in ms :
                /\ \A o \in ms : o.created_at <= m.created_at
                /\ chats[i].lastMessage[1] = [ content |-> m.content,
                                               sender_type |-> m.sender_type,
                                               created_at |-> m.created_at ]

(***************************************************************************)
(* C6                                                                      *)
(***************************************************************************)
\* C6: every ProjectChat emitted for a group is built from an approved application of
\* the actor whose opportunity exists and is owned by the group's analyst.
C6_OnlyProjectsOfTheGroupAnalyst ==
  Returned =>
    \A i \in 1..Len(chats) :
      \E app \in EligibleApplications(AnalystOfChat(chats[i])) :
        /\ app.id = chats[i].project_id
        /\ app.opportunity_id = chats[i].opportunity_id

\* a ProjectChat was emitted for one analyst while the actor also has an approved
\* application on an opportunity of another analyst they have a conversation with
C6_Witness ==
  /\ Returned
  /\ \E i \in 1..Len(chats) :
       \E b \in AnalystIds :
         /\ b # AnalystOfChat(chats[i])
         /\ ConversationsWith(b) # {}
         /\ EligibleApplications(b) # {}

(***************************************************************************)
(* C7                                                                      *)
(***************************************************************************)
\* C7: a group for which no approved application resolves to an opportunity of its
\* analyst has no entry in the output, whatever conversations and messages it has.
C7_GroupWithoutEngagementDropped ==
  Returned =>
    \A k \in 1..Len(analystConversations) :
      LET a == analystConversations[k].analyst_id IN
      EligibleApplications(a) = {} =>
        \A i \in 1..Len(chats) : chats[i].conversation_id \notin ConversationsWith(a)

\* a group with unread messages and a latest message but no eligible application was
\* left out of an output that has entries of the other group
C7_Witness ==
  /\ Returned
  /\ Len(chats) > 0
  /\ \E k \in 1..Len(analystConversations) :
       LET a == analystConversations[k].analyst_id IN
       /\ EligibleApplications(a) = {}
       /\ \E c \in ConversationsWith(a) :
            c \in DOMAIN unreadCountsMap /\ c \in DOMAIN latestMessagesMap

(***************************************************************************)
(* C8                                                                      *)
(***************************************************************************)
\* C8: no (counterpart id, opportunity id) pair appears twice in the output, for any
\* set of application rows the store returns.
C8_NoPairTwice ==
  Returned =>
    \A i, j \in 1..Len(chats) :
      i # j => <<AnalystOfChat(chats[i]), chats[i].opportunity_id>>
               # <<AnalystOfChat(chats[j]), chats[j].opportunity_id>>

(***************************************************************************)
(* C9                                                                      *)
(***************************************************************************)
\* the tallies the unread fetch produced for the conversations with analyst a
UnreadTallyOfGroup(a) ==
  SumOver(unreadCountsMap, ConversationsWith(a) \cap DOMAIN unreadCountsMap)

\* the latest messages the RPC produced for the conversations with analyst a
LatestOfGroup(a) ==
  { latestMessagesMap[c] : c \in ConversationsWith(a) \cap DOMAIN latestMessagesMap }

\* C9: all ProjectChats of one counterpart carry the same conversation_id,
\* last_message_at, lastMessage and unread_count, each derived from all the raw
\* conversations of the counterpart: the canonical conversation of the group, the sum
\* of the tallies of all its conversations, the newest of all their latest messages.
C9_GroupMetadataShared ==
  Returned =>
    /\ \A i, j \in 1..Len(chats) :
         AnalystOfChat(chats[i]) = AnalystOfChat(chats[j]) =>
           /\ chats[i].conversation_id = chats[j].conversation_id
           /\ chats[i].last_message_at = chats[j].last_message_at
           /\ chats[i].lastMessage = chats[j].lastMessage
           /\ chats[i].unread_count = chats[j].unread_count
    /\ \A i \in 1..Len(chats) :
         LET a == chats[i].opportunity.analyst_id IN
         /\ \E k \in 1..Len(analystConversations) :
              /\ analystConversations[k].analyst_id = a
              /\ chats[i].conversation_id = analystConversations[k].id
              /\ chats[i].last_message_at = analystConversations[k].last_message_at
         /\ chats[i].unread_count = UnreadTallyOfGroup(a)
         /\ IF LatestOfGroup(a) = {} THEN chats[i].lastMessage = Null
            ELSE /\ chats[i].lastMessage # Null
                 /\ \A m \in LatestOfGroup(a) :
                      m.created_at <= chats[i].lastMessage[1].created_at

\* two ProjectChats of one counterpart, for two opportunities, whose group has unread
\* messages in two conversations and a latest message
C9_Witness ==
  /\ Returned
  /\ \E i, j \in 1..Len(chats) :
       /\ i # j
       /\ AnalystOfChat(chats[i]) = AnalystOfChat(chats[j])
       /\ chats[i].opportunity_id # chats[j].opportunity_id
       /\ Cardinality(ConversationsWith(AnalystOfChat(chats[i])) \cap DOMAIN unreadCountsMap) >= 2
       /\ chats[i].unread_count >= 2
       /\ chats[i].lastMessage # Null

(***************************************************************************)
(* C10                                                                     *)
(***************************************************************************)
\* C10: the list returned is ordered by the group's canonical last_message_at
\* descending, groups with an equal canonical last_message_at by analyst id ascending
\* (stated on the entries whose canonical last_message_at is not null).
C10_OrderedByRecencyThenAnalyst ==
  Returned =>
    \A i, j \in 1..Len(chats) :
      (i < j /\ chats[i].last_message_at # NullTime /\ chats[j].last_message_at # NullTime) =>
        \/ chats[i].last_message_at > chats[j].last_message_at
        \/ /\ chats[i].last_message_at = chats[j].last_message_at
           /\ AnalystOfChat(chats[i]) <= AnalystOfChat(chats[j])

(***************************************************************************)
(* C11                                                                     *)
(***************************************************************************)
\* the list a call served without error returns, given the responses the store gave
\* to its conversations query, its applications query and its latest-messages RPC
FetchCreatorChatsResult(rows, apps, latestRows) ==
  LET g == GroupConversations(rows)
      ids == [ i \in 1..Len(g.canon) |-> g.canon[i].analyst_id ]
      idMap == IF Len(ids) > 0
               THEN FillAnalystsMap(ids, Some(AnalystsQuery(ids)), Some(ProfilesQuery(ids)))
               ELSE EmptyMap
      oppMap == IF Len(apps) > 0 THEN KeyById(OpportunitiesQuery(OpportunityIds(apps)))
                ELSE EmptyMap
      allIds == FlattenIds(g.canon, g.ids)
      unreadMap == IF Len(allIds) > 0 THEN TallyUnread(UnreadMessagesQuery(allIds, userId))
                   ELSE EmptyMap
      latestMap == IF Len(allIds) > 0 THEN KeyByConversation(latestRows) ELSE EmptyMap
  IN  UnifiedConversations(g.canon, apps, g.ids, idMap, oppMap, unreadMap, latestMap)

\* C11: a second call for the same actor against the unchanged store returns the same
\* list as this call, element for element and in the same order, whatever legal order
\* the store returns the rows of each query in (both calls served without error).
C11_SecondCallReturnsTheSame ==
  (Returned /\ failures = 0) =>
    \A rows \in ConversationsQuery(userId) :
      \A apps \in ApplicationsQuery(userId) :
        \A latestRows \in LatestMessagesRpc(FlattenIds(GroupConversations(rows).canon,
                                                       GroupConversations(rows).ids)) :
          chats = FetchCreatorChatsResult(rows, apps, latestRows)

(***************************************************************************)
(* C12                                                                     *)
(***************************************************************************)
\* the conversations with analyst a that no other conversation with a is newer than
NewestConversationsWith(a) ==
  { m \in ActorConversations :
      /\ m.analyst_id = a
      /\ \A o \in ActorConversations : o.analyst_id = a => ~StrictlyNewer(o, m) }

\* C12: when several conversations of a counterpart tie on the greatest
\* last_message_at, the canonical conversation of the group is the one with the
\* smallest id (stated for a greatest last_message_at that is not null).
C12_TieGoesToSmallestId ==
  Grouped =>
    \A k \in 1..Len(analystConversations) :
      LET g == analystConversations[k]
          newest == NewestConversationsWith(g.analyst_id)
      IN  (Cardinality(newest) >= 2 /\ \A m \in newest : m.last_message_at # NullTime) =>
            \A m \in newest : g.id <= m.id

(***************************************************************************)
(* C13                                                                     *)
(***************************************************************************)
\* the approved applications the call was given whose opportunity has no row in the
\* opportunities result
OrphanApplications ==
  { i \in 1..Len(ApplicationsOrEmpty) :
      ApplicationsOrEmpty[i].opportunity_id \notin DOMAIN opportunitiesMap }

\* C13: the call returns its list; an approved application whose opportunity_id has no
\* row in the opportunities result has no ProjectChat in it, and every other application
\* has its ProjectChat under the group of the analyst who owns its opportunity.
C13_OrphanApplicationDroppedAlone ==
  Returned =>
    \A i \in 1..Len(ApplicationsOrEmpty) :
      LET app == ApplicationsOrEmpty[i] IN
      IF i \in OrphanApplications
      THEN \A j \in 1..Len(chats) : chats[j].project_id # app.id
      ELSE \A k \in 1..Len(analystConversations) :
             analystConversations[k].analyst_id = opportunitiesMap[app.opportunity_id].analyst_id
             => \E j \in 1..Len(chats) :
                  /\ chats[j].project_id = app.id
                  /\ chats[j].opportunity_id = app.opportunity_id
                  /\ chats[j].conversation_id = analystConversations[k].id

\* every fetch was served; the applications response has an orphan followed by another
\* application, whose ProjectChat is in the list
C13_Witness ==
  /\ Returned
  /\ failures = 0
  /\ \E i, j \in 1..Len(ApplicationsOrEmpty) :
       /\ i \in OrphanApplications
       /\ j \notin OrphanApplications
       /\ i < j
       /\ \E n \in 1..Len(chats) : chats[n].project_id = ApplicationsOrEmpty[j].id

(***************************************************************************)
(* C14                                                                     *)
(***************************************************************************)
\* the analysts whose id has a row in neither the analysts nor the profiles table
UnknownAnalysts ==
  { a \in AnalystIds : /\ \A r \in analysts : r.id # a
                       /\ \A p \in profiles : p.id # a }

\* C14: a counterpart with a row in neither analysts nor profiles is resolved to the
\* sentinel identity ('Analista', empty email, null avatar), the call returns its list
\* and the ProjectChats of that counterpart carry the sentinel name.
C14_UnknownCounterpartGetsSentinel ==
  /\ \A a \in UnknownAnalysts :
       a \in DOMAIN analystsMap =>
         /\ analystsMap[a].name = <<"Analista">>
         /\ analystsMap[a].email = <<>>
         /\ analystsMap[a].avatar_url = Null
  /\ Returned =>
       \A i \in 1..Len(chats) :
         AnalystOfChat(chats[i]) \in UnknownAnalysts =>
           /\ chats[i].analyst.name = <<"Analista">>
           /\ chats[i].analyst.avatar_url = Null

\* every fetch was served and the list has a ProjectChat of a counterpart without row
\* next to one of a counterpart with a row
C14_Witness ==
  /\ Returned
  /\ failures = 0
  /\ \E i, j \in 1..Len(chats) :
       /\ AnalystOfChat(chats[i]) \in UnknownAnalysts
       /\ AnalystOfChat(chats[j]) \notin UnknownAnalysts

(***************************************************************************)
(* C15                                                                     *)
(***************************************************************************)
\* the rows of the analysts response (none when the fetch failed)
AnalystsResult == IF analystsData = Null THEN {} ELSE analystsData[1]

\* C15: a counterpart with a row in the analysts result is resolved to the name, email
\* and avatar of that row, also when profiles has a row for the id; a ProjectChat carries
\* a profiles name only if the analysts result has no row for its counterpart.
C15_AnalystsRowWinsOverProfile ==
  /\ \A r \in AnalystsResult :
       r.id \in DOMAIN analystsMap =>
         /\ analystsMap[r.id].name = r.name
         /\ analystsMap[r.id].email = r.email
         /\ analystsMap[r.id].avatar_url = r.avatar_url
  /\ Returned =>
       \A i \in 1..Len(chats) :
         LET a == AnalystOfChat(chats[i]) IN
         /\ \A r \in AnalystsResult :
              r.id = a => /\ chats[i].analyst.name = r.name
                          /\ chats[i].analyst.avatar_url = r.avatar_url
         /\ (\E p \in profiles : p.id = a /\ chats[i].analyst.name = p.full_name)
              => \A r \in AnalystsResult : r.id # a

\* the list has a ProjectChat of a counterpart with a row in both tables, and one of a
\* counterpart with a profiles row only, named after it
C15_Witness ==
  /\ Returned
  /\ failures = 0
  /\ \E i, j \in 1..Len(chats) :
       /\ \E r \in AnalystsResult : r.id = AnalystOfChat(chats[i])
       /\ \E p \in profiles : p.id = AnalystOfChat(chats[i])
       /\ \A r \in AnalystsResult : r.id # AnalystOfChat(chats[j])
       /\ \E p \in profiles : p.id = AnalystOfChat(chats[j]) /\ chats[j].analyst.name = p.full_name

(***************************************************************************)
(* C16                                                                     *)
(***************************************************************************)
\* a fetch after the initial one was answered with a store error
ResolverFailed == failures > 0 /\ ~ConversationsFailed

\* C16: a call in which a resolver fetch (analysts, profiles, applications,
\* opportunities, unread messages, latest-messages RPC) failed with a store error does
\* not return a ProjectChat list to the caller.
C16_ResolverFailureAbortsTheCall ==
  ResolverFailed => ~Returned

(***************************************************************************)
(* C17                                                                     *)
(***************************************************************************)
\* what the call returns to an actor who has no conversations: the projection of no group
ResultWithoutConversations ==
  UnifiedConversations(<<>>, ApplicationsOrEmpty, EmptyMap, EmptyMap, EmptyMap, EmptyMap,
                       EmptyMap)

\* C17: when the initial conversations fetch failed with a store error, what the caller
\* gets differs from what an actor without conversations gets.
C17_ConversationsFailureSurfaced ==
  ConversationsFailed => chats # ResultWithoutConversations

(***************************************************************************)
(* C18                                                                     *)
(***************************************************************************)
\* the projection has started: the call is at Step 4 or past it
ProjectionStarted == pc = "projection" \/ (Returned /\ ~ConversationsFailed)

\* C18: when the projection starts, every resolver fetch the call had to issue has been
\* answered (identities and messages for a non-empty group list, applications always,
\* opportunities for a non-empty application list); no ProjectChat exists before the
\* call is past Step 4, and the list is the projection of the finished mappings.
C18_ProjectionAfterAllResolvers ==
  /\ ProjectionStarted =>
       /\ "opportunity_applications" \in Range(roundTrips)
       /\ Len(analystConversations) > 0 =>
            {"analysts", "profiles", "messages", "rpc:get_latest_messages"}
              \subseteq Range(roundTrips)
       /\ Len(ApplicationsOrEmpty) > 0 => "opportunities" \in Range(roundTrips)
  /\ ~Returned => chats = <<>>
  /\ (Returned /\ ~ConversationsFailed) =>
       chats = UnifiedConversations(analystConversations, ApplicationsOrEmpty,
                                    allConversationsByAnalyst, analystsMap, opportunitiesMap,
                                    unreadCountsMap, latestMessagesMap)

\* every resolver was served, each with rows to give, and the projection built
\* ProjectChats from them
C18_Witness ==
  /\ Returned
  /\ failures = 0
  /\ Len(chats) > 0
  /\ DOMAIN analystsMap # {}
  /\ DOMAIN opportunitiesMap # {}
  /\ DOMAIN unreadCountsMap # {}
  /\ DOMAIN latestMessagesMap # {}

(***************************************************************************)
(* C19                                                                     *)
(***************************************************************************)
\* the ids of a list of rows, in order
IdsOf(rows) == [ i \in 1..Len(rows) |-> rows[i].id ]

\* the step is a call of reorderImages
ReorderCalled ==
  /\ Len(hookCalls') = Len(hookCalls) + 1
  /\ hookCalls'[Len(hookCalls')].op = "reorderImages"

\* the step is the store answering the select of fetchImages call k with rows, the
\* last change of the table being an accepted upsert of rows of that opportunity: a
\* fetchImages following a successful reorderImages
FetchFollowedReorder(k) ==
  /\ At(k, "fetchImages", "select")
  /\ hookCalls'[k].pc = "selected"
  /\ ~hookCalls'[k].fetchError
  /\ lastWrite.op = "upsert"
  /\ \A u \in Range(lastWrite.rows) : u.opportunity_id = hookCalls[k].oppId

\* the step is fetchImages call k taking the rows of its select
FetchReturned(k) ==
  /\ At(k, "fetchImages", "selected")
  /\ ~hookCalls[k].fetchError
  /\ hookCalls'[k].pc = "done"

\* C19: a reorderImages call on a list of n images sends exactly one request to the
\* store, an upsert of n rows, row i with the id of the i-th image supplied and
\* display_order i (from 0); after an accepted upsert a following fetchImages of that
\* opportunity gets the supplied images in the supplied order and holds them in memory.
C19_OneUpsertThenFetchInOrder ==
  [][ /\ ReorderCalled =>
           LET c == hookCalls'[Len(hookCalls')]
           IN  /\ c.pc = "upsert"
               /\ Len(c.updates) = Len(images')
               /\ \A j \in 1..Len(images') :
                    /\ c.updates[j].id = images'[j].id
                    /\ c.updates[j].display_order = j - 1
      /\ \A k \in DOMAIN hookCalls' :
           hookCalls'[k].op = "reorderImages" => hookCalls'[k].requests = 1
      /\ \A k \in DOMAIN hookCalls :
           /\ FetchFollowedReorder(k) =>
                LET supplied == IdsOf(lastWrite.rows)
                IN  SelectSeq(IdsOf(hookCalls'[k].data), LAMBDA id : id \in Range(supplied))
                      = supplied
           /\ FetchReturned(k) => images' = hookCalls[k].data ]_vars

\* images were put in an order other than the stored one, the reorderImages call has
\* resolved, and the store has answered a fetchImages called after it with the images in
\* that order
C19_Witness ==
  \E k \in DOMAIN hookCalls :
    /\ hookCalls[k].op = "fetchImages"
    /\ hookCalls[k].pc = "selected"
    /\ lastWrite.op = "upsert"
    /\ lastWrite.call < k
    /\ hookCalls[lastWrite.call].pc = "done"
    /\ hookCalls[lastWrite.call].outcome = "resolved"
    /\ Len(lastWrite.rows) >= 2
    /\ lastWrite.rows[1].id > lastWrite.rows[2].id
    /\ IdsOf(hookCalls[k].data) = IdsOf(lastWrite.rows)

(***************************************************************************)
(* C20                                                                     *)
(***************************************************************************)
\* the step is the store refusing the upsert of reorderImages call k
UpsertRefused(k) ==
  /\ At(k, "reorderImages", "upsert")
  /\ hookCalls'[k].upsertError

\* the step is reorderImages call k getting the error of its upsert
UpsertFailedStep(k) ==
  /\ At(k, "reorderImages", "upserted")
  /\ hookCalls[k].upsertError
  /\ hookCalls'[k].pc = "done"

\* C20: when the upsert of reorderImages fails, the rows of opportunity_images are left
\* as they were, the in-memory list is left in the order it has (no rollback), the
\* error state is set and the call is rejected with the error.
C20_FailedReorderKeepsStoreAndOptimisticList ==
  [][ \A k \in DOMAIN hookCalls :
        /\ UpsertRefused(k) => opportunity_images' = opportunity_images
        /\ UpsertFailedStep(k) =>
             /\ opportunity_images' = opportunity_images
             /\ images' = images
             /\ error' = ReorderErrorMessage
             /\ hookCalls'[k].outcome = "rejected" ]_vars

\* a reorderImages call was rejected: the list in memory is in another order than the
\* display_order values still stored, and the error is set
C20_Witness ==
  /\ \E k \in DOMAIN hookCalls :
       /\ hookCalls[k].op = "reorderImages"
       /\ hookCalls[k].pc = "done"
       /\ hookCalls[k].outcome = "rejected"
  /\ error = ReorderErrorMessage
  /\ lastWrite = NoWrite
  /\ Len(images) >= 2
  /\ \E i, j \in 1..Len(images) :
       /\ i < j
       /\ \E r, q \in opportunity_images :
            r.id = images[i].id /\ q.id = images[j].id /\ r.display_order > q.display_order

(***************************************************************************)
(* C21                                                                     *)
(***************************************************************************)
\* C21: reorderImages called with an empty list is rejected before anything is sent to
\* the store: no call waits for the upsert of an empty payload.
C21_EmptyReorderRejectedBeforeStore ==
  \A k \in DOMAIN hookCalls :
    (hookCalls[k].op = "reorderImages" /\ hookCalls[k].pc # "done") =>
      hookCalls[k].updates # <<>>

(***************************************************************************)
(* C22                                                                     *)
(***************************************************************************)
\* C22: in every state of RatingModal the rating is in 0..5 and every call of onSubmit
\* carries a rating in 1..5; at rating 0 no call is made (the submit button delivers no
\* click, and no call was made before, the rating never going back to 0).
C22_RatingInRangeAndSubmitGuarded ==
  /\ rating \in 0..5
  /\ \A i \in 1..Len(onSubmitCalls) : onSubmitCalls[i].rating \in 1..5
  /\ Len(onSubmitCalls) <= handleSubmitRuns
  /\ rating = 0 => onSubmitCalls = <<>>

\* the submit button was clicked at rating 1 and again at rating 5, each click calling
\* onSubmit with the rating and the feedback typed
C22_Witness ==
  /\ handleSubmitRuns = 2
  /\ Len(onSubmitCalls) = 2
  /\ onSubmitCalls[1].rating = 1
  /\ onSubmitCalls[2].rating = 5
  /\ onSubmitCalls[2].feedback = "great"

(***************************************************************************)
(* C23                                                                     *)
(***************************************************************************)
\* project_ratings holds at most one row per application_id
OneRatingPerApplication ==
  \A r, q \in project_ratings : r.application_id = q.application_id => r = q

\* an insert for an application that has a rating leaves the table as it is, and a row
\* that is otherwise valid is answered with the uniqueness conflict
SecondRatingRejected ==
  \A r \in project_ratings :
    (ratingRequest' # ratingRequest \/ ratingInserts' # ratingInserts)
    /\ ratingRequest'[1].application_id = r.application_id
    => /\ project_ratings' = project_ratings
       /\ ratingOutcome' # "inserted"
       /\ RatingCheck(ratingRequest'[1]) => ratingOutcome' = "unique_violation"

\* C23: after any sequence of inserts project_ratings has at most one row per
\* application_id; an insert for an application that already has a rating is rejected
\* with a uniqueness conflict, the existing row keeping its rating and feedback.
C23_OneRatingPerApplication ==
  []OneRatingPerApplication /\ [][SecondRatingRejected]_vars

\* a second insert with another rating for a rated application was answered with the
\* uniqueness conflict and the row still has its first rating
C23_Witness ==
  /\ ratingOutcome = "unique_violation"
  /\ \E r \in project_ratings :
       /\ r.application_id = ratingRequest[1].application_id
       /\ r.rating # ratingRequest[1].rating
       /\ r.feedback # ratingRequest[1].feedback

(***************************************************************************)
(* C24                                                                     *)
(***************************************************************************)
\* C24: once both logics have run over the same mock store, they have the same number
\* of unified conversations and the creator at each position has the same project list,
\* in the same order, in both.
C24_BatchedLogicEqualsPerCreatorLogic ==
  benchPc = "validation" =>
    /\ Len(unifiedConversationsOld) = Len(unifiedConversationsNew)
    /\ \A k \in 1..Len(unifiedConversationsOld) :
         \E n \in 1..Len(unifiedConversationsNew) :
           /\ unifiedConversationsNew[n].creator_id = unifiedConversationsOld[k].creator_id
           /\ unifiedConversationsNew[n].projects = unifiedConversationsOld[k].projects

\* both logics ran over a store with a creator who has a project of the analyst and
\* an approved application on an opportunity of another analyst
C24_Witness ==
  /\ benchPc = "validation"
  /\ \E k \in 1..Len(unifiedConversationsNew) :
       /\ Len(unifiedConversationsNew[k].projects) >= 1
       /\ \E i \in 1..Len(APPLICATIONS) :
            /\ APPLICATIONS[i].creator_id = unifiedConversationsNew[k].creator_id
            /\ APPLICATIONS[i].status = "approved"
            /\ HasOpportunity(APPLICATIONS[i])
            /\ ~IsRelevant(APPLICATIONS[i])

(***************************************************************************)
(* Vocabulary of the claims on uploadImages and deleteImage                *)
(***************************************************************************)
\* the rows of one opportunity
ImagesOf(opp) == { r \in opportunity_images : r.opportunity_id = opp }

\* the ids of the rows uploadImages call k can have inserted
IdsOfUpload(k) == { NewImageId(k, index) : index \in FileIndexes }

\* the step is call k of hook function op settling its promise
CallFinishes(k, op) ==
  /\ k \in DOMAIN hookCalls
  /\ hookCalls[k].op = op
  /\ hookCalls[k].pc # "done"
  /\ hookCalls'[k].pc = "done"

\* the step is a call of hook function op
Called(op) ==
  /\ Len(hookCalls') = Len(hookCalls) + 1
  /\ hookCalls'[Len(hookCalls')].op = op

(***************************************************************************)
(* C25                                                                     *)
(***************************************************************************)
\* C25: an uploadImages call that rethrows after the signed-URL request or the insert
\* failed has called remove with the names of all the files it uploaded, no row of the
\* call is in the table, and no image of the call is in the in-memory list, which the
\* rethrowing step leaves as it is.
C25_FailedUploadCleansStorage ==
  [][ \A k \in DOMAIN hookCalls :
        (CallFinishes(k, "uploadImages") /\ hookCalls[k].failure \in {"sign", "insert"}) =>
          LET c == hookCalls[k]
          IN  /\ SuccessfulUploads(c) # {}
              /\ c.removed = Some(FileNames(c, SuccessfulUploads(c)))
              /\ hookCalls'[k].outcome = "rejected"
              /\ \A r \in opportunity_images' : r.id \notin IdsOfUpload(k)
              /\ \A j \in 1..Len(images') : images'[j].id \notin IdsOfUpload(k)
              /\ images' = images ]_vars

\* a call that uploaded two files, asked for remove and rethrew after createSignedUrls
\* failed: two uploads, the signed-URL request and the remove were sent
C25_Witness ==
  \E k \in DOMAIN hookCalls :
    /\ hookCalls[k].op = "uploadImages"
    /\ hookCalls[k].pc = "done"
    /\ hookCalls[k].outcome = "rejected"
    /\ hookCalls[k].failure = "sign"
    /\ hookCalls[k].requests >= 4
    /\ error = UploadErrorMessage

(***************************************************************************)
(* C26                                                                     *)
(***************************************************************************)
\* C26: no opportunity holds more than MAX_IMAGES rows, whatever uploadImages calls
\* were made, overlapping or not.
C26_AtMostMaxImages ==
  \A opp \in OppIds : Cardinality(ImagesOf(opp)) <= MAX_IMAGES

(***************************************************************************)
(* C27                                                                     *)
(***************************************************************************)
\* C27: no two rows of one opportunity have the same display_order.
C27_DistinctDisplayOrder ==
  \A r, t \in opportunity_images :
    (r.opportunity_id = t.opportunity_id /\ r.display_order = t.display_order) => r = t

(***************************************************************************)
(* C28                                                                     *)
(***************************************************************************)
\* C28: when an uploadImages call finishes, every object it uploaded has a row with its
\* signed URL or is no longer in the bucket.
C28_NoOrphanedObject ==
  [][ \A k \in DOMAIN hookCalls :
        CallFinishes(k, "uploadImages") =>
          LET c == hookCalls[k]
              fileNames == FileNames(c, SuccessfulUploads(c))
          IN  \A j \in 1..Len(fileNames) :
                \/ \E r \in opportunity_images' : r.image_url = Some(SignedUrl(fileNames[j]))
                \/ fileNames[j] \notin storageObjects' ]_vars

(***************************************************************************)
(* C29                                                                     *)
(***************************************************************************)
\* C29: when deleteImage finishes, the row and the storage object of its image are both
\* there or both gone; the image leaves the in-memory list only if the delete of the
\* row succeeded; an id that is not in the list makes the call return with nothing
\* sent to the bucket or the store.
C29_RowAndObjectTogether ==
  [][ /\ \A k \in DOMAIN hookCalls :
           CallFinishes(k, "deleteImage") =>
             LET c == hookCalls[k]
                 image == c.imageToDelete[1]
             IN  /\ (\E r \in opportunity_images' : r.id = image.id)
                      <=> (FileNameOfUrl(image.image_url[1]) \in storageObjects')
                 /\ images' # images => ~c.dbError
      /\ (Called("deleteImage") /\ hookCalls'[Len(hookCalls')].pc = "done") =>
           hookCalls'[Len(hookCalls')].requests = 0 ]_vars

(***************************************************************************)
(* C30                                                                     *)
(***************************************************************************)
\* the invocation of the tab-visibility callback, which starts after the one of the
\* mount effect
LastStarted == CHOOSE i \in DashboardCalls : \A j \in DashboardCalls : j <= i

\* both invocations have finished
BothFinished == \A i \in DashboardCalls : dashboardCalls[i].pc = "done"

\* C30: once two fetchDashboardData invocations, overlapping or not, have both
\* finished, the stats and the recent opportunities held are those read by the
\* invocation that started last.
C30_LastStartedInvocationWins ==
  BothFinished =>
    LET last == dashboardCalls[LastStarted]
    IN  /\ stats = StatsOf(last.counts["active"], last.counts["total"],
                           last.counts["completed"], last.counts["apps"])
        /\ recentOpportunities = last.recentWithCounts

====
